---------------------------- MODULE Spec2Model ----------------------------
(***************************************************************************)
(* Transcript automation: the play entrypoint and its worker pool          *)
(* (play.ts, services/worker.ts), the VTT segment store and the transcript *)
(* assembler (services/vtt.ts).                                            *)
(*                                                                         *)
(* The specifications share the variables:                                *)
(*   Spec       main of play.ts: session bootstrap, then runWorkerPool     *)
(*   SpecLive   Spec with every pending await settling in the end          *)
(*   SpecStore  concurrent handleVttResponse calls on the segment store    *)
(*   SpecAsm    processVideo: glob, parse, sort, processSegments, write    *)
(*   SpecSave   the saveTranscript calls of a run on the transcript files  *)
(*   SpecQueue  buildLectureQueue on a manifest and its options            *)
(*   SpecCapture  one processLecture call and its response listener       *)
(***************************************************************************)
EXTENDS Integers, Sequences, FiniteSets, TLC

\* ------------------------------------------------------------------------
\* Bounds
\* ------------------------------------------------------------------------
MaxWorkers == 2
MaxJobs == 2
MaxCalls == 3
MaxFiles == 3

\* ------------------------------------------------------------------------
\* Generic helpers
\* ------------------------------------------------------------------------
Range(s) == {s[i] : i \in 1..Len(s)}

Count(x, s) == Cardinality({i \in 1..Len(s) : s[i] = x})

\* ------------------------------------------------------------------------
\* Worker pool state (services/worker.ts, runWorkerPool)
\* ------------------------------------------------------------------------
VARIABLES
    concurrency,   \* options.concurrency
    queue,         \* the queue argument (never mutated)
    seek,          \* options.seek
    cookies,       \* the cookies argument
    session,       \* createSession: "none" | "captured" | "threw"
    sharedQueue,   \* const sharedQueue = [...queue]
    failed,        \* const failed: QueueItem[]
    poolpc,        \* main: "buildQueue" | "createSession" | "noLectures" |
                   \* "loginFailed"; runWorkerPool: "start" | "awaiting"
                   \* (Promise.all) | "reported" | "threw"
    summary,       \* what the summary lines report
    wpc,           \* position of each worker's async body
    lpc,           \* position inside processLecture
    item,          \* the worker's current item (0: none)
    context,       \* the worker's BrowserContext: none | open | closed | closeFailed
    ctxCookies,    \* cookies given to context.setCookie
    waitResult,    \* what player.waitForFinished gave for the worker's item
    popCount,      \* history: how often shift() returned each job
    doneCount,     \* history: how often processLecture returned for each job
    returned,        \* history: what processLecture returned for each job
    noVideoId,     \* history: jobs skipped with "Video ID not captured"
    processed      \* history: jobs whose pipeline each worker has run

poolVars == <<concurrency, queue, seek, cookies, session, sharedQueue,
              failed, poolpc, summary, wpc, lpc, item, context, ctxCookies,
              waitResult, popCount, doneCount, returned, noVideoId, processed>>

\* ------------------------------------------------------------------------
\* Segment store state (services/vtt.ts, handleVttResponse)
\* ------------------------------------------------------------------------
VARIABLES
    responses,     \* the HTTPResponse each handler call was given
    hpc,           \* per call: "pending" | "text" (await response.text()) | "done"
    vttDirs,       \* directories under config.vttDir
    vttFiles,      \* files under config.vttDir: <<videoId, filename>> -> content
    writers,       \* history: calls that executed writeFileSync
    doneBefore     \* history: calls that had returned when this call began

storeVars == <<responses, hpc, vttDirs, vttFiles, writers, doneBefore>>

\* ------------------------------------------------------------------------
\* Transcript assembly state (services/vtt.ts, processVideo)
\* ------------------------------------------------------------------------
VARIABLES
    videoDir,        \* the segment files of the video: a set of file names,
                     \* or NoDir when the directory does not exist
    apc,             \* position of processVideo
    segmentFiles,    \* const segmentFiles = await glob(globPattern)
    allSegments,     \* const allSegments (sorted once apc = "loop")
    cursor,          \* number of segments the for loop has taken
    seen,            \* processSegments: const seen = new Set<string>()
    result,          \* processSegments: const result: string[]
    currentSentence, \* processSegments: let currentSentence
    transcript,      \* the file at outputPath (NoFile: not written)
    processVideoOk,  \* what processVideo returned
    units            \* history: cue texts per paragraph, as appended

asmVars == <<videoDir, apc, segmentFiles, allSegments, cursor, seen, result,
             currentSentence, transcript, processVideoOk,
             units>>

\* ------------------------------------------------------------------------
\* Transcript files of a run (services/worker.ts, saveTranscript)
\* ------------------------------------------------------------------------
VARIABLES
    lectures,        \* the queue items of the run: [section, title, id]
    transcripts,     \* files under config.transcriptsDir: path -> the job
                     \* whose transcript the file holds
    succeeded,       \* history: jobs whose saveTranscript returned true
    pending          \* jobs whose saveTranscript has not been called

saveVars == <<lectures, transcripts, succeeded, pending>>

\* ------------------------------------------------------------------------
\* Queue build state (services/manifest.ts, buildLectureQueue)
\* ------------------------------------------------------------------------
VARIABLES
    manifest,        \* manifest.sections: [section_title, lectures]
    options,         \* { session?, batchSize? }
    built            \* whether buildLectureQueue returned, and what

queueVars == <<manifest, options, built>>

\* ------------------------------------------------------------------------
\* One job and its response listener (services/worker.ts, processLecture)
\* ------------------------------------------------------------------------
VARIABLES
    cpc,             \* position of processLecture: "goto" | "poll" | "playing" |
                     \* "glob" (inside processVideo) | "listed" | "returned"
    videoId,         \* let videoId: string | null
    count,           \* counter.count
    passedId,        \* the videoId argument of saveTranscript
    listed,          \* the segment files glob gave to processVideo
    firstId,         \* history: the first id a response URL carried
    deliveredBefore  \* history: responses delivered when processVideo began

captureVars == <<cpc, videoId, count, passedId, listed, firstId,
                 deliveredBefore>>

vars == <<poolVars, storeVars, asmVars, saveVars, queueVars, captureVars>>

notPool == <<storeVars, asmVars, saveVars, queueVars, captureVars>>
notStore == <<poolVars, asmVars, saveVars, queueVars, captureVars>>
notAsm == <<poolVars, storeVars, saveVars, queueVars, captureVars>>
notSave == <<poolVars, storeVars, asmVars, queueVars, captureVars>>
notQueue == <<poolVars, storeVars, asmVars, saveVars, captureVars>>
notCapture == <<poolVars, asmVars, saveVars, queueVars>>

NoItem == 0
NoWorkers == [w \in {} |-> 0]
NoDomain == "undefined"
loginUrl == "https://origin"

CookieJars ==
    { <<>>,
      <<[name |-> "sid", domain |-> "origin"],
        [name |-> "tmp", domain |-> NoDomain]>> }

Workers == DOMAIN wpc

Jobs == Range(queue)

\* sharedQueue.shift(): the array without its head (the head is what shift gives)
ShiftPeek(q) == q
Shift(q) == Tail(q)

\* if (!ok) failed.push(item)
RecordNever(f, it, ok) == f
Record(f, it, ok) == IF ok THEN f ELSE Append(f, it)

\* const succeeded = queue.length - failed.length
Succeeded(q, f) == Len(q) - Len(f)

\* cookies.filter(c => typeof c.domain === "string")
IsValidCookie(c) == c.domain # NoDomain
validCookies(cs) == SelectSeq(cs, IsValidCookie)

\* validCookies.map(c => ({ ...c, url: targetUrl }))
SeedCookies(cs, targetUrl) ==
    [i \in 1..Len(validCookies(cs)) |->
        [name |-> validCookies(cs)[i].name,
         domain |-> validCookies(cs)[i].domain,
         url |-> targetUrl]]

\* The variant never settles.
PoolSettleNever(nw, f) ==
    /\ poolpc' = poolpc
    /\ summary' = summary
\* await Promise.all(workers) followed by the summary: nw is the workers'
\* position after the step that is being taken, f the failed list.  When
\* Promise.all rejects, runWorkerPool rejects and the catch block of main
\* runs process.exit(1) before any other callback: "threw" is final.
PoolSettle(nw, f) ==
    IF poolpc # "awaiting" THEN
        /\ poolpc' = poolpc
        /\ summary' = summary
    ELSE IF \E w \in DOMAIN nw : nw[w] = "rejected" THEN
        /\ poolpc' = "threw"
        /\ summary' = summary
    ELSE IF \A w \in DOMAIN nw : nw[w] = "fulfilled" THEN
        /\ poolpc' = "reported"
        /\ summary' = [total |-> Len(queue),
                       succeeded |-> Succeeded(queue, f),
                       failed |-> f]
    ELSE
        /\ poolpc' = "awaiting"
        /\ summary' = summary

NoSummary == [total |-> -1, succeeded |-> -1, failed |-> <<>>]

\* main of play.ts has launched the browser and awaits buildQueue; queue is
\* what buildQueue is going to give.
InitPool ==
    /\ concurrency \in 0..MaxWorkers
    /\ \E m \in 0..MaxJobs : queue = [j \in 1..m |-> j]
    /\ seek \in BOOLEAN
    /\ cookies = <<>>
    /\ session = "none"
    /\ sharedQueue = <<>>
    /\ failed = <<>>
    /\ poolpc = "buildQueue"
    /\ summary = NoSummary
    /\ wpc = NoWorkers
    /\ lpc = NoWorkers
    /\ item = NoWorkers
    /\ context = NoWorkers
    /\ ctxCookies = NoWorkers
    /\ waitResult = NoWorkers
    /\ popCount = [j \in Jobs |-> 0]
    /\ doneCount = [j \in Jobs |-> 0]
    /\ returned = [j \in Jobs |-> "none"]
    /\ noVideoId = {}
    /\ processed = NoWorkers

\* main: const queue = await buildQueue(...);
\*       if (queue.length === 0) { Logger.warn(...); return; }
BuildQueue ==
    /\ poolpc = "buildQueue"
    /\ poolpc' = IF Len(queue) = 0 THEN "noLectures" ELSE "createSession"
    /\ UNCHANGED <<concurrency, queue, seek, cookies, session, sharedQueue,
                   failed, summary, wpc, lpc, item, context, ctxCookies,
                   waitResult, popCount, doneCount, returned, noVideoId, processed>>
    /\ UNCHANGED notPool

\* ensureLoggedIn: if (!(await isLoggedIn(page))) if (!(await login(page)))
\* throw new Error("Failed to login to Teachable.")
ensureLoggedIn(isLoggedIn, login) ==
    IF ~isLoggedIn /\ ~login THEN "threw" ELSE "returned"

\* createSession: the setup page, ensureLoggedIn, extractCookies, close;
\* pageOk is FALSE when one of its other awaits rejects.
createSession(pageOk, isLoggedIn, login) ==
    IF ~pageOk \/ ensureLoggedIn(isLoggedIn, login) = "threw"
      THEN "threw" ELSE "captured"

\* main: try { ... await createSession(browser); await runWorkerPool(...) }
\*       catch (error) { Logger.error(...); process.exit(1); }
\* Where main is once createSession has settled with s.
AfterSessionUncaught(s) == "start"
AfterSession(s) == IF s = "threw" THEN "loginFailed" ELSE "start"

\* main: const { cookies, loginUrl } = await createSession(browser) settles.
CreateSession ==
    /\ poolpc = "createSession"
    /\ \E pageOk \in BOOLEAN, isLoggedIn \in BOOLEAN, login \in BOOLEAN :
        /\ session' = createSession(pageOk, isLoggedIn, login)
        /\ poolpc' = AfterSession(createSession(pageOk, isLoggedIn, login))
        /\ IF createSession(pageOk, isLoggedIn, login) = "captured"
             THEN cookies' \in CookieJars
             ELSE cookies' = cookies
    /\ UNCHANGED <<concurrency, queue, seek, sharedQueue, failed, summary,
                   wpc, lpc, item, context, ctxCookies, waitResult,
                   popCount, doneCount, returned, noVideoId, processed>>
    /\ UNCHANGED notPool

\* const sharedQueue = [...queue]: a new array, the items in the same order
spreadReversed(q) == [i \in 1..Len(q) |-> q[Len(q) + 1 - i]]
spread(q) == q

\* runWorkerPool up to `await Promise.all(workers)`: every worker body runs
\* to its first await (worker 0 to createBrowserContext, the others to their
\* stagger timer).  With no worker Promise.all([]) is already fulfilled.
RunWorkerPool ==
    /\ poolpc = "start"
    /\ sharedQueue' = spread(queue)
    /\ failed' = <<>>
    /\ wpc' = [w \in 0..(concurrency - 1) |->
                 IF w > 0 THEN "stagger" ELSE "createContext"]
    /\ lpc' = [w \in 0..(concurrency - 1) |-> "none"]
    /\ item' = [w \in 0..(concurrency - 1) |-> NoItem]
    /\ context' = [w \in 0..(concurrency - 1) |-> "none"]
    /\ ctxCookies' = [w \in 0..(concurrency - 1) |-> <<>>]
    /\ processed' = [w \in 0..(concurrency - 1) |-> <<>>]
    /\ IF concurrency = 0
         THEN /\ poolpc' = "reported"
              /\ summary' = [total |-> Len(queue),
                             succeeded |-> Succeeded(queue, <<>>),
                             failed |-> <<>>]
         ELSE /\ poolpc' = "awaiting"
              /\ summary' = summary
    /\ waitResult' = [w \in 0..(concurrency - 1) |-> "none"]
    /\ UNCHANGED <<concurrency, queue, seek, cookies, session, popCount,
                   doneCount, returned, noVideoId>>
    /\ UNCHANGED notPool

\* setTimeout(r, i * 3000) fires: timers with a smaller delay fire first.
StaggerDone(w) ==
    /\ poolpc = "awaiting" /\ wpc[w] = "stagger"
    /\ \A v \in Workers : v < w => wpc[v] # "stagger"
    /\ wpc' = [wpc EXCEPT ![w] = "createContext"]
    /\ UNCHANGED <<concurrency, queue, seek, cookies, session, sharedQueue,
                   failed, poolpc, summary, lpc, item, context, ctxCookies,
                   waitResult, popCount, doneCount, returned, noVideoId, processed>>
    /\ UNCHANGED notPool

\* The worker's body rejects (an await outside or inside try threw).
WorkerRejects(w) ==
    /\ wpc' = [wpc EXCEPT ![w] = "rejected"]
    /\ PoolSettle([wpc EXCEPT ![w] = "rejected"], failed)

\* createWorkerContext: if (validCookies.length > 0) await context.setCookie(...)
\* return context   -- back in the worker: await context.newPage()
afterCreateUnseeded(cs) == "newPage"
afterCreate(cs) ==
    IF Len(validCookies(cs)) > 0 THEN "setCookie" ELSE "newPage"

\* The caller's cookies array once createWorkerContext has built the
\* arguments of setCookie: filter() gives a new array and the spread in
\* map() new objects, so the array and its objects are as they were.  The
\* variant writes url into the objects of the array.
cookiesAfterSeedInPlace(cs, targetUrl) ==
    [i \in 1..Len(cs) |->
        IF IsValidCookie(cs[i])
          THEN [name |-> cs[i].name, domain |-> cs[i].domain, url |-> targetUrl]
          ELSE cs[i]]
cookiesAfterSeed(cs, targetUrl) == cs

\* createWorkerContext: browser.createBrowserContext() settles; the cookies
\* are filtered and copied for setCookie.
CreateContext(w) ==
    /\ poolpc = "awaiting" /\ wpc[w] = "createContext"
    /\ \E ok \in BOOLEAN :
        IF ok THEN
            /\ context' = [context EXCEPT ![w] = "open"]
            /\ wpc' = [wpc EXCEPT ![w] = afterCreate(cookies)]
            /\ cookies' = cookiesAfterSeed(cookies, loginUrl)
            /\ UNCHANGED <<poolpc, summary>>
        ELSE
            /\ WorkerRejects(w)
            /\ UNCHANGED <<context, cookies>>
    /\ UNCHANGED <<concurrency, queue, seek, session, sharedQueue,
                   failed, lpc, waitResult,
                   item, ctxCookies, popCount, doneCount, returned, noVideoId, processed>>
    /\ UNCHANGED notPool

\* createWorkerContext: context.setCookie(...) settles.
SetCookie(w) ==
    /\ poolpc = "awaiting" /\ wpc[w] = "setCookie"
    /\ \E ok \in BOOLEAN :
        IF ok THEN
            /\ ctxCookies' = [ctxCookies EXCEPT
                                ![w] = SeedCookies(cookies, loginUrl)]
            /\ wpc' = [wpc EXCEPT ![w] = "newPage"]
            /\ UNCHANGED <<poolpc, summary>>
        ELSE
            /\ WorkerRejects(w)
            /\ UNCHANGED ctxCookies
    /\ UNCHANGED <<concurrency, queue, seek, cookies, session, sharedQueue,
                   failed, lpc, waitResult,
                   item, context, popCount, doneCount, returned, noVideoId, processed>>
    /\ UNCHANGED notPool

\* The head of the while loop, entered with the failed list f:
\*   while (sharedQueue.length > 0) { const item = sharedQueue.shift(); ...
\*       await processLecture(...)      -- up to `await page.goto`
\*   } finally { await context.close(); }
LoopHead(w, f) ==
    /\ failed' = f
    /\ IF Len(sharedQueue) > 0 THEN
          /\ sharedQueue' = Shift(sharedQueue)
          /\ item' = [item EXCEPT ![w] = Head(sharedQueue)]
          /\ popCount' = [popCount EXCEPT ![Head(sharedQueue)] = @ + 1]
          /\ wpc' = [wpc EXCEPT ![w] = "lecture"]
          /\ lpc' = [lpc EXCEPT ![w] = "goto"]
          /\ waitResult' = [waitResult EXCEPT ![w] = "none"]
       ELSE
          /\ sharedQueue' = sharedQueue
          /\ item' = [item EXCEPT ![w] = NoItem]
          /\ popCount' = popCount
          /\ wpc' = [wpc EXCEPT ![w] = "closing"]
          /\ lpc' = [lpc EXCEPT ![w] = "none"]
          /\ waitResult' = [waitResult EXCEPT ![w] = "none"]

\* context.newPage() settles; on success the worker enters the try block.
NewPage(w) ==
    /\ poolpc = "awaiting" /\ wpc[w] = "newPage"
    /\ \E ok \in BOOLEAN :
        IF ok THEN
            /\ LoopHead(w, failed)
            /\ UNCHANGED <<poolpc, summary>>
        ELSE
            /\ WorkerRejects(w)
            /\ UNCHANGED <<sharedQueue, failed, lpc, item, waitResult,
                           popCount>>
    /\ UNCHANGED <<concurrency, queue, seek, cookies, session, context,
                   ctxCookies, doneCount, returned, noVideoId, processed>>
    /\ UNCHANGED notPool

\* processLecture returns ok for the worker's item (how: "ok", "false" for
\* a `return false`, "threw" for the catch block); the worker records it
\* and goes round the loop.
LectureReturns(w, how) ==
    /\ doneCount' = [doneCount EXCEPT ![item[w]] = @ + 1]
    /\ returned' = [returned EXCEPT ![item[w]] = how]
    /\ noVideoId' = IF lpc[w] = "poll" THEN noVideoId \cup {item[w]}
                                       ELSE noVideoId
    /\ processed' = [processed EXCEPT ![w] = Append(@, item[w])]
    /\ LoopHead(w, Record(failed, item[w], how = "ok"))
    /\ UNCHANGED <<concurrency, queue, seek, cookies, session, poolpc,
                   summary, context, ctxCookies>>
    /\ UNCHANGED notPool

\* processLecture moves on to its next await.
LectureStep(w, next) ==
    /\ lpc' = [lpc EXCEPT ![w] = next]
    /\ UNCHANGED <<concurrency, queue, seek, cookies, session, sharedQueue,
                   failed, poolpc, summary, wpc, item, context, ctxCookies,
                   popCount, doneCount, returned, noVideoId, processed>>
    /\ UNCHANGED notPool

\* await page.goto(item.lecture.url, ...)
Goto(w) ==
    /\ poolpc = "awaiting" /\ wpc[w] = "lecture" /\ lpc[w] = "goto"
    /\ \/ LectureStep(w, "ensurePlaying") /\ UNCHANGED waitResult
       \/ LectureReturns(w, "threw")

\* const playing = await player.ensurePlaying(page)
EnsurePlaying(w) ==
    /\ poolpc = "awaiting" /\ wpc[w] = "lecture" /\ lpc[w] = "ensurePlaying"
    /\ \/ LectureStep(w, "poll") /\ UNCHANGED waitResult
       \/ LectureReturns(w, "false")
       \/ LectureReturns(w, "threw")

\* let attempts = 0;
\* while (!videoId && attempts < 15) { await 1 s timer; attempts++; }
\* onResponse sets videoId during the timer numbered `arrival` (0: before the
\* loop is entered; above POLL_ATTEMPTS: not while the loop runs).  The
\* loop reads and writes locals of this call only, so its timers are taken
\* as one step.  Gives videoId and attempts as the loop leaves them.
POLL_ATTEMPTS == 15

RECURSIVE pollLoop(_, _)
pollLoop(arrival, attempts) ==
    IF ~(arrival <= attempts) /\ attempts < POLL_ATTEMPTS
      THEN pollLoop(arrival, attempts + 1)
      ELSE [videoId |-> arrival <= attempts, attempts |-> attempts]

\* The timers during which the video id is taken to arrive: before the
\* loop, during its first and its last timer, and after them
Arrivals == {0, 1, POLL_ATTEMPTS, POLL_ATTEMPTS + 1}

\* the poll loop, then: if (!videoId) { Logger.warn(...); return false; }
PollVideoId(w) ==
    /\ poolpc = "awaiting" /\ wpc[w] = "lecture" /\ lpc[w] = "poll"
    /\ \E arrival \in Arrivals :
        IF pollLoop(arrival, 0).videoId
          THEN LectureStep(w, "selectSubtitles") /\ UNCHANGED waitResult
          ELSE LectureReturns(w, "false")

\* await subtitle.selectEnglishSubtitles(page)
SelectSubtitles(w) ==
    /\ poolpc = "awaiting" /\ wpc[w] = "lecture" /\ lpc[w] = "selectSubtitles"
    /\ \/ LectureStep(w, "wait") /\ UNCHANGED waitResult
       \/ LectureReturns(w, "threw")

\* player.waitForFinished: no frame gives false; waitForFunction resolving
\* gives true, its timeout is caught and gives false.
waitForFinished(frame, ended) ==
    IF ~frame THEN "noFrame" ELSE IF ended THEN "ended" ELSE "timedOut"

\* The statement after the wait is `return await saveTranscript(...)`
\* whatever waitForFinished gave.
AfterWaitAgain(r) == IF r = "timedOut" THEN "wait" ELSE "save"
AfterWait(r) == "save"

\* if (options.seek) await seekThroughVideo(...)
\* else await player.waitForFinished(page)       -- the value is dropped
WaitPlayback(w) ==
    /\ poolpc = "awaiting" /\ wpc[w] = "lecture" /\ lpc[w] = "wait"
    /\ \/ /\ seek
          /\ LectureStep(w, "save") /\ UNCHANGED waitResult
       \/ /\ ~seek
          /\ \E frame \in BOOLEAN, ended \in BOOLEAN :
                /\ waitResult' = [waitResult EXCEPT
                                    ![w] = waitForFinished(frame, ended)]
                /\ LectureStep(w, AfterWait(waitForFinished(frame, ended)))
       \/ LectureReturns(w, "threw")

\* vtt.processVideo as saveTranscript sees it: false when the video has no
\* directory, no segment file or no cue, or when writing throws; else true.
processVideoAlways(dirExists, nFiles, nSegments, writeOk) == TRUE
processVideoReturns(dirExists, nFiles, nSegments, writeOk) ==
    IF ~dirExists THEN FALSE
    ELSE IF nFiles = 0 THEN FALSE
    ELSE IF nSegments = 0 THEN FALSE
    ELSE writeOk

\* return await saveTranscript(...): vtt.processVideo gives true or false,
\* or throws (glob rejects) into the catch block of processLecture.
SaveTranscript(w) ==
    /\ poolpc = "awaiting" /\ wpc[w] = "lecture" /\ lpc[w] = "save"
    /\ \/ \E dirExists \in BOOLEAN, nFiles \in 0..1, nSegments \in 0..1,
             writeOk \in BOOLEAN :
            /\ nFiles = 0 => nSegments = 0
            /\ ~dirExists => nFiles = 0
            /\ IF processVideoReturns(dirExists, nFiles, nSegments, writeOk)
                 THEN LectureReturns(w, "ok")
                 ELSE LectureReturns(w, "false")
       \/ LectureReturns(w, "threw")

\* finally { await context.close(); } settles.
CloseContext(w) ==
    /\ poolpc = "awaiting" /\ wpc[w] = "closing"
    /\ \E ok \in BOOLEAN :
        IF ok THEN
            /\ context' = [context EXCEPT ![w] = "closed"]
            /\ wpc' = [wpc EXCEPT ![w] = "fulfilled"]
            /\ PoolSettle([wpc EXCEPT ![w] = "fulfilled"], failed)
        ELSE
            /\ context' = [context EXCEPT ![w] = "closeFailed"]
            /\ WorkerRejects(w)
    /\ UNCHANGED <<concurrency, queue, seek, cookies, session, sharedQueue,
                   failed, lpc, waitResult,
                   item, ctxCookies, popCount, doneCount, returned, noVideoId, processed>>
    /\ UNCHANGED notPool

\* ------------------------------------------------------------------------
\* Properties of the worker pool (checked under Spec)
\* ------------------------------------------------------------------------
Closed(w) == wpc[w] = "fulfilled"

\* runWorkerPool has been entered
Started == poolpc \in {"awaiting", "reported", "threw"}

AllClosed == Started /\ \A w \in Workers : Closed(w)

ProcessedTotal ==
    Cardinality({p \in Workers \X (1..(Len(queue) + 1)) :
                    p[2] <= Len(processed[p[1]])})

FailedJobs == {j \in Jobs : returned[j] \in {"false", "threw"}}

\* C1: with N >= 1 workers and M >= 1 jobs, shift() hands every job to at
\* most one worker at any moment of the run, and once all workers are Closed
\* every job has been popped once and processed once, the processed jobs of
\* all workers sum to M, and at least N - M workers have processed nothing.
C1_ExactlyOnce ==
    (concurrency >= 1 /\ Len(queue) >= 1 /\ Started) =>
        /\ \A j \in Jobs :
            /\ popCount[j] <= 1
            /\ doneCount[j] <= popCount[j]
            /\ Cardinality({w \in Workers : item[w] = j})
                 + Cardinality({w \in Workers : Count(j, processed[w]) > 0})
                 = popCount[j]
        /\ AllClosed =>
            /\ \A j \in Jobs :
                /\ popCount[j] = 1
                /\ doneCount[j] = 1
                /\ Cardinality({w \in Workers : Count(j, processed[w]) = 1}) = 1
            /\ ProcessedTotal = Len(queue)
            /\ sharedQueue = <<>>
            /\ Cardinality({w \in Workers : processed[w] = <<>>})
                 >= concurrency - Len(queue)

\* C1 witness: two workers, one job, both Closed; the worker that started
\* second took the job and the surplus worker processed none.
W_C1 ==
    /\ concurrency = 2 /\ Len(queue) = 1 /\ AllClosed
    /\ processed[1] = <<1>> /\ processed[0] = <<>>

\* C7: a step in which the pipeline of worker w's job throws appends that
\* job to failed, sends the same worker to the next job of the queue (or to
\* close when the queue is empty), leaves every other worker, every other
\* job's outcome and the pool untouched; a job that threw is in failed once.
C7_Step ==
    /\ \A w \in Workers :
        (/\ wpc[w] = "lecture"
         /\ doneCount'[item[w]] = doneCount[item[w]] + 1
         /\ returned'[item[w]] = "threw") =>
            /\ failed' = Append(failed, item[w])
            /\ IF Len(sharedQueue) > 0
                 THEN /\ wpc'[w] = "lecture" /\ lpc'[w] = "goto"
                      /\ item'[w] = Head(sharedQueue)
                 ELSE wpc'[w] = "closing"
            /\ \A v \in Workers \ {w} :
                /\ wpc'[v] = wpc[v] /\ lpc'[v] = lpc[v]
                /\ item'[v] = item[v] /\ context'[v] = context[v]
                /\ processed'[v] = processed[v]
            /\ \A j \in Jobs \ {item[w]} : returned'[j] = returned[j]
            /\ poolpc' = poolpc
    /\ \A j \in Jobs : returned'[j] = "threw" => Count(j, failed') = 1

C7_FailureIsolation == [][C7_Step]_vars

\* C7 witness: a worker whose first job threw went on to finish a second
\* job successfully, and the run reported its summary.
W_C7 ==
    /\ poolpc = "reported"
    /\ \E w \in Workers :
        /\ processed[w] = <<1, 2>>
        /\ returned[1] = "threw" /\ returned[2] = "ok"
        /\ failed = <<1>>

\* C8: a worker that has settled (its body returned or threw) does not
\* leave behind a context it created without having run context.close().
C8_ContextReleased ==
    \A w \in Workers :
        wpc[w] \in {"fulfilled", "rejected"} => context[w] # "open"

\* C9: the reported summary is truthful: total = M, the failed list holds
\* exactly the jobs whose pipeline returned failure, each once, succeeded is
\* the number of jobs whose pipeline returned success, and
\* succeeded + failed = M = jobs processed.
C9_SummaryTruthful ==
    poolpc = "reported" =>
        /\ summary.total = Len(queue)
        /\ Range(summary.failed) = FailedJobs
        /\ \A j \in FailedJobs : Count(j, summary.failed) = 1
        /\ summary.succeeded = Cardinality({j \in Jobs : returned[j] = "ok"})
        /\ summary.succeeded + Len(summary.failed) = Len(queue)
        /\ \A j \in Jobs : doneCount[j] = 1

\* C10: the summary is reported only when all workers are Closed, and then
\* no job is pending in the queue and none is in progress.
C10_SummaryBarrier ==
    poolpc = "reported" =>
        /\ \A w \in Workers : Closed(w)
        /\ sharedQueue = <<>>
        /\ \A w \in Workers : item[w] = NoItem

\* C11: when createSession throws (login cannot be confirmed) the run
\* aborts: main has exited, and in that run no worker and no worker context
\* is ever created, no job is popped and no job is processed.
C11_BootstrapFatal ==
    session = "threw" =>
        /\ poolpc = "loginFailed"
        /\ Workers = {}
        /\ DOMAIN context = {}
        /\ sharedQueue = <<>>
        /\ \A j \in Jobs : popCount[j] = 0 /\ doneCount[j] = 0
        /\ \A j \in Jobs : returned[j] = "none"

\* C11 witness: login failed with jobs queued and workers configured.
W_C11 ==
    /\ session = "threw" /\ poolpc = "loginFailed"
    /\ Len(queue) = MaxJobs /\ concurrency = MaxWorkers

\* Worker w's processLecture call returns in this step
Returns(w) ==
    /\ wpc[w] = "lecture"
    /\ doneCount'[item[w]] = doneCount[item[w]] + 1

\* Worker w goes on with the next job of the queue, or closes its context
\* when the queue is empty; the pool keeps awaiting its workers.
Proceeds(w) ==
    /\ IF Len(sharedQueue) > 0
         THEN /\ wpc'[w] = "lecture" /\ lpc'[w] = "goto"
              /\ item'[w] = Head(sharedQueue)
         ELSE wpc'[w] = "closing"
    /\ poolpc' = poolpc

\* C13: a job whose waitForFinished timed out is recorded as failed when
\* its pipeline returns, and the pool continues.
C13_Step ==
    \A w \in Workers :
        (Returns(w) /\ waitResult[w] = "timedOut") =>
            /\ Count(item[w], failed') = 1
            /\ Proceeds(w)

C13_TimeoutFails == [][C13_Step]_vars

\* C14: a playback-wait timeout is not fatal: in the step in which
\* waitForFinished times out the worker calls saveTranscript (the assembler)
\* for the same job; nothing else happens to a timed-out job before the
\* assembler returns; when it returns the worker goes on with the next job;
\* neither the worker nor the run is aborted.
C14_Step ==
    \A w \in Workers :
        /\ (waitResult[w] # "timedOut" /\ waitResult'[w] = "timedOut") =>
            /\ wpc[w] = "lecture" /\ lpc[w] = "wait"
            /\ wpc'[w] = "lecture" /\ lpc'[w] = "save"
            /\ item'[w] = item[w]
            /\ failed' = failed /\ sharedQueue' = sharedQueue
            /\ poolpc' = poolpc
        /\ waitResult[w] = "timedOut" =>
            /\ wpc[w] = "lecture" /\ lpc[w] = "save"
            /\ (wpc'[w] # wpc[w] \/ lpc'[w] # lpc[w] \/ item'[w] # item[w]) =>
                /\ Returns(w)
                /\ Proceeds(w)
                /\ processed'[w] = Append(processed[w], item[w])

C14_TimeoutNotFatal == [][C14_Step]_vars

\* C14 witness: the wait of job 1 timed out, the assembler has been called
\* for it, and job 2 is still queued for this worker to go on with.
W_C14 ==
    \E w \in Workers :
        /\ waitResult[w] = "timedOut" /\ lpc[w] = "save" /\ item[w] = 1
        /\ sharedQueue = <<2>>
        /\ poolpc = "awaiting"

\* C15: the discovery window is POLL_ATTEMPTS one-second polls; processVideo
\* gives false when there is no segment file or the write fails.  A job
\* whose poll loop ends without a video id, or whose processVideo gives
\* false, is pushed to failed in that step and is in failed once, is not
\* reported as done, and its worker proceeds to the next job; a job without
\* video id never reaches saveTranscript.
C15_Step ==
    \A w \in Workers :
        /\ (Returns(w) /\ lpc[w] = "poll") =>
            /\ \A arrival \in 0..(POLL_ATTEMPTS + 1) :
                /\ pollLoop(arrival, 0).videoId <=> arrival <= POLL_ATTEMPTS
                /\ ~pollLoop(arrival, 0).videoId =>
                      pollLoop(arrival, 0).attempts = POLL_ATTEMPTS
            /\ item[w] \in noVideoId'
            /\ returned'[item[w]] = "false"
            /\ failed' = Append(failed, item[w])
            /\ Count(item[w], failed') = 1
            /\ Proceeds(w)
        /\ (Returns(w) /\ lpc[w] = "save" /\ returned'[item[w]] # "ok") =>
            /\ \A writeOk \in BOOLEAN, nSegments \in 0..1 :
                /\ ~processVideoReturns(FALSE, 0, 0, writeOk)
                /\ ~processVideoReturns(TRUE, 0, 0, writeOk)
                /\ ~processVideoReturns(TRUE, 1, nSegments, FALSE)
            /\ failed' = Append(failed, item[w])
            /\ Count(item[w], failed') = 1
            /\ Proceeds(w)
        /\ (wpc[w] = "lecture" /\ item[w] \in noVideoId) => lpc[w] # "save"
        /\ (wpc'[w] = "lecture" /\ lpc'[w] = "save") =>
            item'[w] \notin noVideoId'

C15_RecoverableFailures == [][C15_Step]_vars

\* C15 witness: job 1 was skipped for want of a video id and is the only
\* failed job; the same worker then finished job 2 and the run reported.
W_C15 ==
    /\ poolpc = "reported"
    /\ noVideoId = {1} /\ failed = <<1>> /\ returned[1] = "false"
    /\ \E w \in Workers : processed[w] = <<1, 2>>
    /\ returned[2] = "ok"

\* Where a worker's body is: Starting 0..2 (stagger timer, context creation,
\* cookie seeding), Seeded 3 (context returned, page being opened), Draining
\* 4..5 (the loop, then the close it ends with), Closed 6 (body settled).
Phase(p) ==
    CASE p = "stagger" -> 0
      [] p = "createContext" -> 1
      [] p = "setCookie" -> 2
      [] p = "newPage" -> 3
      [] p = "lecture" -> 4
      [] p = "closing" -> 5
      [] p \in {"fulfilled", "rejected"} -> 6

\* Worker w takes a job from the queue in this step
Pops(w) == wpc'[w] = "lecture" /\ item'[w] # NoItem /\ item'[w] # item[w]

\* Worker w's context exists and holds the pool's valid cookies
Seeded(w) ==
    /\ context[w] = "open"
    /\ ctxCookies[w] = SeedCookies(cookies, loginUrl)

\* C21: a worker only moves forward through Starting, Seeded, Draining,
\* Closed: its position never decreases; it pops a job and has a job in
\* its pipeline only with its context created and seeded with the cookies
\* (it enters its loop seeded, and while it is in the loop its context
\* stays open and its cookies stay as they are); once it has run
\* context.close() it holds no job, pops none and processes none.
C21_Step ==
    \A w \in Workers :
        /\ Phase(wpc'[w]) >= Phase(wpc[w])
        /\ Pops(w) =>
            /\ Phase(wpc[w]) \in {3, 4}
            /\ context[w] = "open"
            /\ wpc[w] = "newPage" => Seeded(w)
        /\ wpc[w] = "lecture" =>
            /\ context[w] = "open" /\ item[w] # NoItem
            /\ context'[w] = "open"
            /\ ctxCookies'[w] = ctxCookies[w] /\ cookies' = cookies
        /\ Phase(wpc[w]) < 3 => item[w] = NoItem /\ processed[w] = <<>>
        /\ context[w] \in {"closed", "closeFailed"} =>
            /\ Phase(wpc[w]) = 6 /\ wpc'[w] = wpc[w]
            /\ item[w] = NoItem /\ item'[w] = NoItem
            /\ processed'[w] = processed[w]
            /\ context'[w] = context[w]

C21_ForwardOnly == [][C21_Step]_vars

\* C21 witness: a worker seeded with the session cookie has drained both
\* jobs and closed its context while the other worker is still starting.
W_C21 ==
    /\ Started /\ concurrency = 2
    /\ wpc[0] = "fulfilled" /\ context[0] = "closed"
    /\ Len(ctxCookies[0]) = 1 /\ processed[0] = <<1, 2>>
    /\ Phase(wpc[1]) < 3

\* C24: once runWorkerPool has been entered no step changes the pool's
\* cookie list or a cookie object in it; a context starts without cookies
\* and the only step that changes the cookies of a worker's context is that
\* worker's setCookie, which leaves the cookies of every other worker's
\* context as they were and gives the context copies (with the url added)
\* of the pool's valid cookies, the same for every worker.
C24_Step ==
    /\ poolpc \in {"start", "awaiting", "reported", "threw"} => cookies' = cookies
    /\ poolpc = "start" => \A w \in DOMAIN ctxCookies' : ctxCookies'[w] = <<>>
    /\ \A w \in Workers :
        ctxCookies'[w] # ctxCookies[w] =>
            /\ wpc[w] = "setCookie"
            /\ \A v \in Workers \ {w} : ctxCookies'[v] = ctxCookies[v]
            /\ ctxCookies'[w] = SeedCookies(cookies, loginUrl)
            /\ \A i \in 1..Len(ctxCookies'[w]) :
                /\ ctxCookies'[w][i].url = loginUrl
                /\ \E k \in 1..Len(cookies') :
                    /\ DOMAIN cookies'[k] = {"name", "domain"}
                    /\ cookies'[k].name = ctxCookies'[w][i].name
                    /\ cookies'[k].domain = ctxCookies'[w][i].domain

C24_CredentialsReadOnly == [][C24_Step]_vars

\* C24 witness: both workers' contexts were seeded from the session's
\* cookies, one after the other has already finished a job.
W_C24 ==
    /\ poolpc = "awaiting" /\ concurrency = 2 /\ Len(cookies) = 2
    /\ Len(ctxCookies[0]) = 1 /\ Len(ctxCookies[1]) = 1
    /\ Len(processed[0]) = 1
    /\ wpc[1] = "newPage"

\* s is what remains of q after some of its first items were taken
IsSuffix(s, q) == \E k \in 0..Len(q) : s = SubSeq(q, k + 1, Len(q))

\* C25: from the moment runWorkerPool has copied the queue the shared queue
\* is a suffix of the queue that was built (which stays as it was); a step
\* leaves the shared queue alone or removes its head, which is then the
\* item of the worker that took the step; its length never grows and no
\* item, failed or not, is put back.
C25_Step ==
    Started =>
        /\ IsSuffix(sharedQueue, queue)
        /\ queue' = queue
        /\ Len(sharedQueue') <= Len(sharedQueue)
        /\ \/ sharedQueue' = sharedQueue
           \/ /\ sharedQueue # <<>>
              /\ sharedQueue' = Tail(sharedQueue)
              /\ \E w \in Workers :
                    Pops(w) /\ item'[w] = Head(sharedQueue)
        /\ \A j \in Range(failed') : j \notin Range(sharedQueue')

C25_FifoDrain == [][C25_Step]_vars

\* C25 witness: job 1 failed and was not put back: the queue is empty
\* while the last job is in progress.
W_C25 ==
    /\ poolpc = "awaiting" /\ Len(queue) = MaxJobs
    /\ failed = <<1>> /\ sharedQueue = <<>>
    /\ \E w \in Workers : wpc[w] = "lecture" /\ item[w] = MaxJobs

\* C27: runWorkerPool has not settled (returned after the summary, or
\* thrown to main) while a worker holds an open context or has a job in
\* progress, whichever await of another worker failed.
C27_SettlesLast ==
    poolpc \in {"reported", "threw"} =>
        \A w \in Workers :
            /\ context[w] # "open"
            /\ wpc[w] # "lecture"
            /\ item[w] = NoItem

\* C30: with N >= 1 workers, once runWorkerPool has been entered, and as
\* long as every await of a worker settles, the run comes to the state in
\* which every worker is Closed, the queue is empty and the summary is
\* reported, unless an await of a worker outside its pipeline rejected
\* (then a worker is rejected and the pool has thrown); no worker stays in
\* its loop with the queue empty.
C30_PoolTerminates ==
    /\ [](poolpc = "threw" => \E w \in Workers : wpc[w] = "rejected")
    /\ (concurrency >= 1 /\ poolpc = "start") ~>
          \/ poolpc = "threw"
          \/ /\ poolpc = "reported" /\ AllClosed /\ sharedQueue = <<>>
             /\ summary.total = Len(queue)

\* C30 witness: two workers and a full queue; the run has reported with
\* both workers Closed and the queue empty.
W_C30 ==
    /\ concurrency = MaxWorkers /\ Len(queue) = MaxJobs
    /\ poolpc = "reported" /\ AllClosed /\ sharedQueue = <<>>
    /\ \A w \in Workers : processed[w] # <<>>

\* ------------------------------------------------------------------------
\* Segment store (services/vtt.ts)
\* ------------------------------------------------------------------------
Null == "null"

\* A response: the parts of its URL that the handler looks at (the video
\* directory of /video/<id>/hls/, the last path segment and its extension,
\* the textstream_<lang>= marker), its status and its body.
Url(video, name, ext, lang) ==
    [video |-> video, name |-> name, ext |-> ext, lang |-> lang]

Response(url, status, body) == [url |-> url, status |-> status, body |-> body]

ResponsePool ==
    { Response(Url("v1", "seg1", "webvtt", "eng"), 200, "bytesA"),
      Response(Url("v1", "seg1", "webvtt", "eng"), 200, "bytesB"),
      Response(Url("v1", "seg2", "webvtt", Null), 200, "bytesC"),
      Response(Url("v1", "seg1", "webvtt", "spa"), 200, "bytesD"),
      Response(Url("v1", "seg2", "webvtt", "eng"), 404, "bytesE"),
      Response(Url(Null, "seg3", "webvtt", "eng"), 200, "bytesF") }

\* url.includes(".webvtt")
IncludesVtt(url) == url.ext = "webvtt"

\* function isEnglishVttResponse(url, status)
isEnglishVttResponse(url, status) ==
    IF ~IncludesVtt(url) \/ status # 200 THEN FALSE
    ELSE url.lang = Null \/ url.lang = "eng"

\* function extractVideoIdAndFilename(url)
extractVideoIdAndFilename(url) ==
    IF url.video = Null THEN [videoId |-> Null, filename |-> Null]
    ELSE [videoId |-> url.video,
          filename |-> IF url.ext = "webvtt" THEN url.name ELSE Null]

\* path.join(videoDir, `${filename}.txt`)
outputFilename(r) ==
    <<extractVideoIdAndFilename(r.url).videoId,
      extractVideoIdAndFilename(r.url).filename>>

\* fs.existsSync(outputFilename)
existsSyncNever(files, f) == FALSE
existsSync(files, f) == f \in DOMAIN files

\* fs.writeFileSync(outputFilename, vttContent, "utf-8")
writeFileSync(files, f, content) ==
    [k \in DOMAIN files \cup {f} |-> IF k = f THEN content ELSE files[k]]

Calls == DOMAIN responses

\* The call is for a segment that the handler saves.
Saves(r) ==
    /\ isEnglishVttResponse(r.url, r.status)
    /\ extractVideoIdAndFilename(r.url).videoId # Null
    /\ extractVideoIdAndFilename(r.url).filename # Null

InitStore ==
    /\ \E n \in 1..MaxCalls : responses \in [1..n -> ResponsePool]
    /\ hpc = [c \in Calls |-> "pending"]
    /\ vttDirs = {}
    /\ vttFiles = <<>>
    /\ writers = {}
    /\ doneBefore = [c \in Calls |-> {}]

IdleStore ==
    /\ responses = <<>>
    /\ hpc = <<>>
    /\ vttDirs = {}
    /\ vttFiles = <<>>
    /\ writers = {}
    /\ doneBefore = <<>>

\* handleVttResponse from its entry to `await response.text()` or to one of
\* its early returns.
HandleVttResponse(c) ==
    /\ hpc[c] = "pending"
    /\ doneBefore' = [doneBefore EXCEPT ![c] = {d \in Calls : hpc[d] = "done"}]
    /\ LET r == responses[c] IN
        IF ~isEnglishVttResponse(r.url, r.status) THEN
            /\ hpc' = [hpc EXCEPT ![c] = "done"]
            /\ UNCHANGED vttDirs
        ELSE IF \/ extractVideoIdAndFilename(r.url).videoId = Null
                \/ extractVideoIdAndFilename(r.url).filename = Null THEN
            /\ hpc' = [hpc EXCEPT ![c] = "done"]
            /\ UNCHANGED vttDirs
        ELSE
            /\ vttDirs' = vttDirs \cup {extractVideoIdAndFilename(r.url).videoId}
            /\ IF existsSync(vttFiles, outputFilename(r))
                 THEN hpc' = [hpc EXCEPT ![c] = "done"]
                 ELSE hpc' = [hpc EXCEPT ![c] = "text"]
    /\ UNCHANGED <<responses, vttFiles, writers>>
    /\ UNCHANGED notStore

\* response.text() settles: the body is written, or the failure is caught
\* and logged.
TextSettles(c) ==
    /\ hpc[c] = "text"
    /\ hpc' = [hpc EXCEPT ![c] = "done"]
    /\ \E ok \in BOOLEAN :
        IF ok THEN
            /\ vttFiles' = writeFileSync(vttFiles, outputFilename(responses[c]),
                                         responses[c].body)
            /\ writers' = writers \cup {c}
        ELSE
            UNCHANGED <<vttFiles, writers>>
    /\ UNCHANGED <<responses, vttDirs, doneBefore>>
    /\ UNCHANGED notStore

NextStore ==
    \/ \E c \in Calls : HandleVttResponse(c)
    \/ \E c \in Calls : TextSettles(c)

\* C2: bytes stored under a key are never replaced, under every
\* interleaving of the handler calls.
C2_NeverReplaced ==
    [][\A k \in DOMAIN vttFiles :
          k \in DOMAIN vttFiles' /\ vttFiles'[k] = vttFiles[k]]_vars

\* Another call than c and d touches key k (it wrote it or is about to).
Interferes(k, c, d) ==
    \E e \in Calls \ {c, d} :
        /\ Saves(responses[e]) /\ outputFilename(responses[e]) = k
        /\ e \in writers \/ hpc[e] = "text"

\* C3: when a call c has run to completion and written its key, a call d
\* for the same key that begins afterwards returns at once and changes no
\* file; the key still holds c's bytes (no third call being involved).
C3_Step ==
    \A c, d \in Calls :
        (/\ c # d
         /\ Saves(responses[c]) /\ Saves(responses[d])
         /\ outputFilename(responses[c]) = outputFilename(responses[d])
         /\ hpc[c] = "done" /\ c \in writers
         /\ hpc[d] = "pending" /\ hpc'[d] # "pending") =>
            /\ hpc'[d] = "done"
            /\ vttFiles' = vttFiles
            /\ writers' = writers
            /\ ~Interferes(outputFilename(responses[c]), c, d) =>
                 vttFiles'[outputFilename(responses[c])] = responses[c].body

C3_PutIdempotent == [][C3_Step]_vars

\* C3 witness: c wrote and returned, d (same key, other bytes) began after
\* that and has returned; the file holds c's bytes and another key is stored.
W_C3 ==
    \E c, d \in Calls :
        /\ c \in writers /\ c \in doneBefore[d] /\ hpc[d] = "done"
        /\ outputFilename(responses[c]) = outputFilename(responses[d])
        /\ Saves(responses[d])
        /\ responses[c].body # responses[d].body
        /\ vttFiles[outputFilename(responses[c])] = responses[c].body
        /\ Cardinality(DOMAIN vttFiles) = 2

\* ------------------------------------------------------------------------
\* Strings (a string is a sequence of one-character strings)
\* ------------------------------------------------------------------------
Max(S) == CHOOSE x \in S : \A y \in S : y <= x
Min(S) == CHOOSE x \in S : \A y \in S : x <= y

\* White space removed by String.prototype.trim
IsSpace(c) == c \in {" ", "\t", "\n", "\r"}

trimEnd(s) ==
    LET keep == {i \in 1..Len(s) : ~IsSpace(s[i])}
    IN  IF keep = {} THEN <<>> ELSE SubSeq(s, 1, Max(keep))

trimStart(s) ==
    LET keep == {i \in 1..Len(s) : ~IsSpace(s[i])}
    IN  IF keep = {} THEN <<>> ELSE SubSeq(s, Min(keep), Len(s))

trim(s) == trimStart(trimEnd(s))

startsWith(s, p) == Len(s) >= Len(p) /\ SubSeq(s, 1, Len(p)) = p

\* Positions at which p occurs in s
Occurrences(s, p) ==
    {i \in 1..(Len(s) - Len(p) + 1) : SubSeq(s, i, i + Len(p) - 1) = p}

includes(s, p) == Occurrences(s, p) # {}

\* s.split(sep) for a non-empty separator
RECURSIVE split(_, _)
split(s, sep) ==
    IF ~includes(s, sep) THEN <<s>>
    ELSE LET i == Min(Occurrences(s, sep))
         IN  <<SubSeq(s, 1, i - 1)>> \o split(SubSeq(s, i + Len(sep), Len(s)), sep)

\* parts.join(sep)
RECURSIVE join(_, _)
join(parts, sep) ==
    IF Len(parts) = 0 THEN <<>>
    ELSE IF Len(parts) = 1 THEN parts[1]
    ELSE parts[1] \o sep \o join(Tail(parts), sep)

\* s.slice(-1)
lastCharOf(s) == IF Len(s) = 0 THEN <<>> ELSE <<s[Len(s)]>>

Digits == <<"0", "1", "2", "3", "4", "5", "6", "7", "8", "9">>
IsDigit(c) == \E i \in 1..10 : Digits[i] = c
DigitValue(c) == (CHOOSE i \in 1..10 : Digits[i] = c) - 1

\* parseInt(s, 10) of a string of digits
RECURSIVE parseInt(_)
parseInt(s) ==
    IF Len(s) = 0 THEN 0
    ELSE 10 * parseInt(SubSeq(s, 1, Len(s) - 1)) + DigitValue(s[Len(s)])

LowerCase == <<"a", "b", "c", "d", "e", "f", "g", "h", "i", "j", "k", "l", "m",
               "n", "o", "p", "q", "r", "s", "t", "u", "v", "w", "x", "y", "z">>
UpperCase == <<"A", "B", "C", "D", "E", "F", "G", "H", "I", "J", "K", "L", "M",
               "N", "O", "P", "Q", "R", "S", "T", "U", "V", "W", "X", "Y", "Z">>

\* c.toUpperCase() for one character
toUpperCase(c) ==
    IF \E i \in 1..26 : LowerCase[i] = c
      THEN UpperCase[CHOOSE i \in 1..26 : LowerCase[i] = c]
      ELSE c

\* ------------------------------------------------------------------------
\* VTT parsing (services/vtt.ts)
\* ------------------------------------------------------------------------
TIME_RANGE_SEPARATOR == <<" ", "-", "-", ">", " ">>

\* PATTERNS.VTT_HEADER_BLOCKS: /^(WEBVTT|X-TIMESTAMP-MAP|NOTE|Kind:|Language:)/
HeaderWords ==
    { <<"W", "E", "B", "V", "T", "T">>,
      <<"X", "-", "T", "I", "M", "E", "S", "T", "A", "M", "P", "-", "M", "A", "P">>,
      <<"N", "O", "T", "E">>,
      <<"K", "i", "n", "d", ":">>,
      <<"L", "a", "n", "g", "u", "a", "g", "e", ":">> }

VTT_HEADER_BLOCKS(line) == \E w \in HeaderWords : startsWith(line, w)

undefined == <<"undefined">>

\* /^\d+$/.test(line)
AllDigits(line) == Len(line) > 0 /\ \A i \in 1..Len(line) : IsDigit(line[i])

\* function parseVttBlock(lines): a VttSegment, or the empty sequence for null
parseVttBlockAny(lines) ==
    <<[timeRange |-> lines[1], content |-> <<>>, contentId |-> undefined]>>
parseVttBlock(lines) ==
    LET hits == {i \in 1..Len(lines) : includes(lines[i], TIME_RANGE_SEPARATOR)}
    IN  IF hits = {} THEN <<>>
        ELSE LET timeRangeIndex == Min(hits)
             IN  <<[timeRange |-> lines[timeRangeIndex],
                    content |-> trim(join(SubSeq(lines, timeRangeIndex + 1,
                                                 Len(lines)),
                                          <<" ">>)),
                    contentId |-> IF timeRangeIndex > 1 /\ AllDigits(lines[1])
                                    THEN lines[1] ELSE undefined]>>

\* The for loop of parseVttFile over lines[k..]: segments found so far and
\* the block being collected.
RECURSIVE parseLines(_, _, _, _)
parseLines(lines, k, segments, currentBlock) ==
    IF k > Len(lines) THEN
        IF Len(currentBlock) > 0
          THEN segments \o parseVttBlock(currentBlock)
          ELSE segments
    ELSE LET line == trim(lines[k]) IN
        IF Len(line) = 0 THEN
            IF Len(currentBlock) > 0
              THEN parseLines(lines, k + 1,
                              segments \o parseVttBlock(currentBlock), <<>>)
              ELSE parseLines(lines, k + 1, segments, currentBlock)
        ELSE IF VTT_HEADER_BLOCKS(line) THEN
            parseLines(lines, k + 1, segments, currentBlock)
        ELSE parseLines(lines, k + 1, segments, Append(currentBlock, line))

\* function parseVttFile(filePath), given the file's content
parseVttFile(content) == parseLines(split(trim(content), <<"\n">>), 1, <<>>, <<>>)

\* PATTERNS.TIMESTAMP: /(\d{2}):(\d{2}):(\d{2})\.(\d{3})/ matches s at i
TimestampAt(s, i) ==
    /\ i + 11 <= Len(s)
    /\ \A k \in {0, 1, 3, 4, 6, 7, 9, 10, 11} : IsDigit(s[i + k])
    /\ s[i + 2] = ":" /\ s[i + 5] = ":" /\ s[i + 8] = "."

\* function getStartTimeMs(segment); the variant gives a late time for
\* `if (!match)`
getStartTimeMsLate(segment) ==
    LET left == split(segment.timeRange, TIME_RANGE_SEPARATOR)[1]
        at == {i \in 1..Len(left) : TimestampAt(left, i)}
    IN  IF at = {} THEN 360000000
        ELSE LET i == Min(at)
                 h == parseInt(SubSeq(left, i, i + 1))
                 m == parseInt(SubSeq(left, i + 3, i + 4))
                 sec == parseInt(SubSeq(left, i + 6, i + 7))
                 ms == parseInt(SubSeq(left, i + 9, i + 11))
             IN  (h * 3600 + m * 60 + sec) * 1000 + ms
getStartTimeMs(segment) ==
    LET left == split(segment.timeRange, TIME_RANGE_SEPARATOR)[1]
        at == {i \in 1..Len(left) : TimestampAt(left, i)}
    IN  IF at = {} THEN 0
        ELSE LET i == Min(at)
                 h == parseInt(SubSeq(left, i, i + 1))
                 m == parseInt(SubSeq(left, i + 3, i + 4))
                 sec == parseInt(SubSeq(left, i + 6, i + 7))
                 ms == parseInt(SubSeq(left, i + 9, i + 11))
             IN  (h * 3600 + m * 60 + sec) * 1000 + ms

\* segmentFiles.flatMap((f) => parseVttFile(f))
RECURSIVE flatMapParse(_, _)
flatMapParse(files, contentOf) ==
    IF Len(files) = 0 THEN <<>>
    ELSE parseVttFile(contentOf[files[1]]) \o flatMapParse(Tail(files), contentOf)

\* allSegments.sort((a, b) => getStartTimeMs(a) - getStartTimeMs(b)):
\* Array.prototype.sort is stable, equal keys keep their order.
RECURSIVE insertSorted(_, _)
insertSorted(sorted, x) ==
    IF Len(sorted) = 0 THEN <<x>>
    ELSE IF getStartTimeMs(sorted[Len(sorted)]) <= getStartTimeMs(x)
      THEN Append(sorted, x)
      ELSE Append(insertSorted(SubSeq(sorted, 1, Len(sorted) - 1), x),
                  sorted[Len(sorted)])

RECURSIVE sortInto(_, _)
sortInto(sorted, rest) ==
    IF Len(rest) = 0 THEN sorted
    ELSE sortInto(insertSorted(sorted, rest[1]), Tail(rest))

sortNone(segments) == segments
sortByStart(segments) == sortInto(<<>>, segments)

\* ------------------------------------------------------------------------
\* Captured segment files used as inputs (raw file content by file name)
\* ------------------------------------------------------------------------
\* a.txt:
\*   WEBVTT\nX-TIMESTAMP-MAP=MPEGTS:900000,LOCAL:00:00:00.000\n\n1\n00:00:0
\*   1.000 --> 00:00:02.000\nThe cat sat.\n\n2\n00:00:03.000 --> 00:00:04.0
\*   00\nAnd it slept.\n
File_a ==
    <<"W", "E", "B", "V", "T", "T", "\n", "X", "-", "T", "I", "M", "E", "S",
      "T", "A", "M", "P", "-", "M", "A", "P", "=", "M", "P", "E", "G", "T",
      "S", ":", "9", "0", "0", "0", "0", "0", ",", "L", "O", "C", "A", "L",
      ":", "0", "0", ":", "0", "0", ":", "0", "0", ".", "0", "0", "0", "\n",
      "\n", "1", "\n", "0", "0", ":", "0", "0", ":", "0", "1", ".", "0", "0",
      "0", " ", "-", "-", ">", " ", "0", "0", ":", "0", "0", ":", "0", "2",
      ".", "0", "0", "0", "\n", "T", "h", "e", " ", "c", "a", "t", " ", "s",
      "a", "t", ".", "\n", "\n", "2", "\n", "0", "0", ":", "0", "0", ":",
      "0", "3", ".", "0", "0", "0", " ", "-", "-", ">", " ", "0", "0", ":",
      "0", "0", ":", "0", "4", ".", "0", "0", "0", "\n", "A", "n", "d", " ",
      "i", "t", " ", "s", "l", "e", "p", "t", ".", "\n">>

\* b.txt:
\*   WEBVTT\n\n00:00:02.000 --> 00:00:03.000\nThe cat sat.\n\n00:00:05.000 
\*   --> 00:00:06.000\nthen it\nwoke up\n
File_b ==
    <<"W", "E", "B", "V", "T", "T", "\n", "\n", "0", "0", ":", "0", "0", ":",
      "0", "2", ".", "0", "0", "0", " ", "-", "-", ">", " ", "0", "0", ":",
      "0", "0", ":", "0", "3", ".", "0", "0", "0", "\n", "T", "h", "e", " ",
      "c", "a", "t", " ", "s", "a", "t", ".", "\n", "\n", "0", "0", ":", "0",
      "0", ":", "0", "5", ".", "0", "0", "0", " ", "-", "-", ">", " ", "0",
      "0", ":", "0", "0", ":", "0", "6", ".", "0", "0", "0", "\n", "t", "h",
      "e", "n", " ", "i", "t", "\n", "w", "o", "k", "e", " ", "u", "p",
      "\n">>

\* c.txt:
\*   WEBVTT\n\n00:00:01.000 --> 00:00:02.000\nHello\n
File_c ==
    <<"W", "E", "B", "V", "T", "T", "\n", "\n", "0", "0", ":", "0", "0", ":",
      "0", "1", ".", "0", "0", "0", " ", "-", "-", ">", " ", "0", "0", ":",
      "0", "0", ":", "0", "2", ".", "0", "0", "0", "\n", "H", "e", "l", "l",
      "o", "\n">>

\* d.txt:
\*   00:00:01.000 --> 00:00:02.000\nworld:\n\n00:00:04.000 --> 00:00:05.000
\*   \nSo be it\n
File_d ==
    <<"0", "0", ":", "0", "0", ":", "0", "1", ".", "0", "0", "0", " ", "-",
      "-", ">", " ", "0", "0", ":", "0", "0", ":", "0", "2", ".", "0", "0",
      "0", "\n", "w", "o", "r", "l", "d", ":", "\n", "\n", "0", "0", ":",
      "0", "0", ":", "0", "4", ".", "0", "0", "0", " ", "-", "-", ">", " ",
      "0", "0", ":", "0", "0", ":", "0", "5", ".", "0", "0", "0", "\n", "S",
      "o", " ", "b", "e", " ", "i", "t", "\n">>

\* e.txt:
\*   WEBVTT\n\nNOTE made by hand\n\nbad --> worse\n9 lives\n\n00:00:02.500 
\*   --> 00:00:03.000\n\nno range here\n
File_e ==
    <<"W", "E", "B", "V", "T", "T", "\n", "\n", "N", "O", "T", "E", " ", "m",
      "a", "d", "e", " ", "b", "y", " ", "h", "a", "n", "d", "\n", "\n", "b",
      "a", "d", " ", "-", "-", ">", " ", "w", "o", "r", "s", "e", "\n", "9",
      " ", "l", "i", "v", "e", "s", "\n", "\n", "0", "0", ":", "0", "0", ":",
      "0", "2", ".", "5", "0", "0", " ", "-", "-", ">", " ", "0", "0", ":",
      "0", "0", ":", "0", "3", ".", "0", "0", "0", "\n", "\n", "n", "o", " ",
      "r", "a", "n", "g", "e", " ", "h", "e", "r", "e", "\n">>

\* f.txt:
\*   WEBVTT\nKind: captions\nLanguage: en\n
File_f ==
    <<"W", "E", "B", "V", "T", "T", "\n", "K", "i", "n", "d", ":", " ", "c",
      "a", "p", "t", "i", "o", "n", "s", "\n", "L", "a", "n", "g", "u", "a",
      "g", "e", ":", " ", "e", "n", "\n">>

\* g.txt:
\*   WEBVTT\n\n7\n00:00:01.500 --> 00:00:02.500\nBut why\n
File_g ==
    <<"W", "E", "B", "V", "T", "T", "\n", "\n", "7", "\n", "0", "0", ":",
      "0", "0", ":", "0", "1", ".", "5", "0", "0", " ", "-", "-", ">", " ",
      "0", "0", ":", "0", "0", ":", "0", "2", ".", "5", "0", "0", "\n", "B",
      "u", "t", " ", "w", "h", "y", "\n">>

\* h.txt:
\*   WEBVTT\r\n\r\n00:00:06.000 --> 00:00:07.000\r\nOk!\r\n
File_h ==
    <<"W", "E", "B", "V", "T", "T", "\r", "\n", "\r", "\n", "0", "0", ":",
      "0", "0", ":", "0", "6", ".", "0", "0", "0", " ", "-", "-", ">", " ",
      "0", "0", ":", "0", "0", ":", "0", "7", ".", "0", "0", "0", "\r", "\n",
      "O", "k", "!", "\r", "\n">>

\* i.txt:
\*   00:00:07.000 --> 00:00:08.000\n2 cats;\n\n00:00:08.000 --> 00:00:09.00
\*   0\nOrange\n
File_i ==
    <<"0", "0", ":", "0", "0", ":", "0", "7", ".", "0", "0", "0", " ", "-",
      "-", ">", " ", "0", "0", ":", "0", "0", ":", "0", "8", ".", "0", "0",
      "0", "\n", "2", " ", "c", "a", "t", "s", ";", "\n", "\n", "0", "0",
      ":", "0", "0", ":", "0", "8", ".", "0", "0", "0", " ", "-", "-", ">",
      " ", "0", "0", ":", "0", "0", ":", "0", "9", ".", "0", "0", "0", "\n",
      "O", "r", "a", "n", "g", "e", "\n">>

\* j.txt:
\*   WEBVTT\n\n01:02:03.004 --> 01:02:04.000\nthe end\n
File_j ==
    <<"W", "E", "B", "V", "T", "T", "\n", "\n", "0", "1", ":", "0", "2", ":",
      "0", "3", ".", "0", "0", "4", " ", "-", "-", ">", " ", "0", "1", ":",
      "0", "2", ":", "0", "4", ".", "0", "0", "0", "\n", "t", "h", "e", " ",
      "e", "n", "d", "\n">>

\* k.txt:
\*   WEBVTT\n\n5\n00:00:01.000 --> 00:00:02.000\n\n00:00:02.000 --> 00:00:0
\*   3.000\n
File_k ==
    <<"W", "E", "B", "V", "T", "T", "\n", "\n", "5", "\n", "0", "0", ":",
      "0", "0", ":", "0", "1", ".", "0", "0", "0", " ", "-", "-", ">", " ",
      "0", "0", ":", "0", "0", ":", "0", "2", ".", "0", "0", "0", "\n",
      "\n", "0", "0", ":", "0", "0", ":", "0", "2", ".", "0", "0", "0", " ",
      "-", "-", ">", " ", "0", "0", ":", "0", "0", ":", "0", "3", ".", "0",
      "0", "0", "\n">>

FileNames == {"a", "b", "c", "d", "e", "f", "g", "h", "i", "j", "k"}

VttPool ==
    [n \in FileNames |->
        IF n = "a" THEN File_a
        ELSE IF n = "b" THEN File_b
        ELSE IF n = "c" THEN File_c
        ELSE IF n = "d" THEN File_d
        ELSE IF n = "e" THEN File_e
        ELSE IF n = "f" THEN File_f
        ELSE IF n = "g" THEN File_g
        ELSE IF n = "h" THEN File_h
        ELSE IF n = "i" THEN File_i
        ELSE IF n = "j" THEN File_j
        ELSE File_k]

\* ------------------------------------------------------------------------
\* Transcript generation (services/vtt.ts)
\* ------------------------------------------------------------------------
CONTINUATION_WORDS ==
    { <<"A", "n", "d">>, <<"B", "u", "t">>, <<"O", "r">>, <<"S", "o">>,
      <<"T", "h", "e", "n">>, <<"H", "o", "w", "e", "v", "e", "r">>,
      <<"T", "h", "e", "r", "e", "f", "o", "r", "e">> }

NoDir == {"ENOENT"}
NoFile == <<"ENOENT">>

\* seen.has(content)
seenHasNever(s, content) == FALSE
seenHas(s, content) == content \in s

\* The state of processSegments before its loop
LoopStart ==
    [seen |-> {}, result |-> <<>>, currentSentence |-> <<>>,
     units |-> [closed |-> <<>>, open |-> <<>>]]

\* result.push(currentSentence), with the history of its units
Push(st) ==
    [st EXCEPT !.result = Append(@, st.currentSentence),
               !.units = [closed |-> Append(@.closed, @.open), open |-> <<>>]]

\* result.push(currentSentence); currentSentence = ""
FlushKeep(st) == Push(st)
Flush(st) == [Push(st) EXCEPT !.currentSentence = <<>>]

\* One iteration of the for loop of processSegments
forSegment(st, segment) ==
    LET content == trim(segment.content) IN
    IF Len(content) = 0 \/ seenHas(st.seen, content) THEN st
    ELSE
      LET st1 == [st EXCEPT !.seen = @ \cup {content}]
          lastChar == lastCharOf(trimEnd(st.currentSentence))
          firstChar == content[1]
          isNewSentence ==
              /\ firstChar = toUpperCase(firstChar)
              /\ lastChar \notin {<<".">>, <<"!">>, <<"?">>, <<":">>, <<";">>}
          isContinuation ==
              \E word \in CONTINUATION_WORDS : startsWith(content, word \o <<" ">>)
          st2 ==
              IF Len(st.currentSentence) > 0 THEN
                  IF isNewSentence /\ ~isContinuation THEN
                      [Push(st1) EXCEPT !.currentSentence = content,
                                        !.units.open = <<content>>]
                  ELSE
                      [st1 EXCEPT !.currentSentence = @ \o <<" ">> \o content,
                                  !.units.open = Append(@, content)]
              ELSE
                  [st1 EXCEPT !.currentSentence = content,
                              !.units.open = <<content>>]
      IN  IF lastCharOf(trimEnd(st2.currentSentence))
                \in {<<".">>, <<"!">>, <<"?">>}
            THEN Flush(st2)
            ELSE st2

\* The whole for loop of processSegments
RECURSIVE forAll(_, _)
forAll(st, segments) ==
    IF Len(segments) = 0 THEN st
    ELSE forAll(forSegment(st, segments[1]), Tail(segments))

\* if (currentSentence) result.push(currentSentence)
afterLoopAlways(st) == Push(st)
afterLoop(st) == IF Len(st.currentSentence) > 0 THEN Push(st) ELSE st

\* return result.join("\n\n")
joinResult(st) == join(st.result, <<"\n", "\n">>)

\* function processSegments(segments)
processSegments(segments) == joinResult(afterLoop(forAll(LoopStart, segments)))

\* What processVideo writes to outputPath when glob lists the files in this
\* order (NoFile when it returns before writing).
processedText(order) ==
    IF Len(order) = 0 \/ Len(flatMapParse(order, VttPool)) = 0 THEN NoFile
    ELSE processSegments(sortByStart(flatMapParse(order, VttPool)))

\* The orders in which glob can list the files of a directory
Orders(dir) ==
    {p \in [1..Cardinality(dir) -> dir] :
        \A i, k \in 1..Cardinality(dir) : i # k => p[i] # p[k]}

InitAsm ==
    /\ videoDir \in {NoDir} \cup
                    {S \in SUBSET FileNames : Cardinality(S) <= MaxFiles}
    /\ apc = "start"
    /\ segmentFiles = <<>>
    /\ allSegments = <<>>
    /\ cursor = 0
    /\ seen = {}
    /\ result = <<>>
    /\ currentSentence = <<>>
    /\ transcript = NoFile
    /\ processVideoOk = "none"
    /\ units = LoopStart.units

IdleAsm ==
    /\ videoDir = NoDir
    /\ apc = "idle"
    /\ segmentFiles = <<>>
    /\ allSegments = <<>>
    /\ cursor = 0
    /\ seen = {}
    /\ result = <<>>
    /\ currentSentence = <<>>
    /\ transcript = NoFile
    /\ processVideoOk = "none"
    /\ units = LoopStart.units

\* processVideo up to `await glob(globPattern)`
ProcessVideo ==
    /\ apc = "start"
    /\ IF videoDir = NoDir
         THEN apc' = "returned" /\ processVideoOk' = FALSE
         ELSE apc' = "glob" /\ processVideoOk' = processVideoOk
    /\ UNCHANGED <<videoDir, segmentFiles, allSegments, cursor, seen, result,
                   currentSentence, transcript, units>>
    /\ UNCHANGED notAsm

\* glob settles with the files in some order; the segments are parsed and
\* sorted and processSegments is entered.
GlobSettles ==
    /\ apc = "glob"
    /\ \E order \in Orders(videoDir) :
        /\ segmentFiles' = order
        /\ IF Len(order) = 0 \/ Len(flatMapParse(order, VttPool)) = 0
             THEN /\ apc' = "returned"
                  /\ processVideoOk' = FALSE
                  /\ allSegments' = flatMapParse(order, VttPool)
             ELSE /\ apc' = "loop"
                  /\ processVideoOk' = processVideoOk
                  /\ allSegments' = sortByStart(flatMapParse(order, VttPool))
    /\ cursor' = 0
    /\ seen' = LoopStart.seen
    /\ result' = LoopStart.result
    /\ currentSentence' = LoopStart.currentSentence
    /\ units' = LoopStart.units
    /\ UNCHANGED <<videoDir, transcript>>
    /\ UNCHANGED notAsm

LoopState ==
    [seen |-> seen, result |-> result, currentSentence |-> currentSentence,
     units |-> units]

\* for (const segment of segments) { ... }: one iteration
ForSegment ==
    /\ apc = "loop"
    /\ cursor < Len(allSegments)
    /\ LET st == forSegment(LoopState, allSegments[cursor + 1]) IN
        /\ seen' = st.seen
        /\ result' = st.result
        /\ currentSentence' = st.currentSentence
        /\ units' = st.units
    /\ cursor' = cursor + 1
    /\ UNCHANGED <<videoDir, apc, segmentFiles, allSegments, transcript,
                   processVideoOk>>
    /\ UNCHANGED notAsm

\* The end of processSegments and the write of the transcript, which
\* succeeds or throws into the catch block.
WriteTranscript ==
    /\ apc = "loop"
    /\ cursor = Len(allSegments)
    /\ LET st == afterLoop(LoopState) IN
        /\ result' = st.result
        /\ currentSentence' = st.currentSentence
        /\ units' = st.units
        /\ \E written \in BOOLEAN :
            /\ processVideoOk' = written
            /\ transcript' = IF written THEN joinResult(st) ELSE transcript
    /\ apc' = "returned"
    /\ UNCHANGED <<videoDir, segmentFiles, allSegments, cursor, seen>>
    /\ UNCHANGED notAsm

NextAsm ==
    \/ ProcessVideo
    \/ GlobSettles
    \/ ForSegment
    \/ WriteTranscript

\* ------------------------------------------------------------------------
\* Properties of the assembler (checked under SpecAsm)
\* ------------------------------------------------------------------------
Written == apc = "returned" /\ processVideoOk = TRUE

\* The cue texts in the order in which they were put into the output
RECURSIVE Flatten(_)
Flatten(ss) == IF Len(ss) = 0 THEN <<>> ELSE ss[1] \o Flatten(Tail(ss))

UnitsInOrder == Flatten(units.closed) \o units.open

\* The paragraphs rebuilt from the recorded units
UnitsText == join([i \in 1..Len(units.closed) |-> join(units.closed[i], <<" ">>)],
                  <<"\n", "\n">>)

\* Trimmed, non-empty cue texts of the video
Texts == {trim(allSegments[i].content) : i \in 1..Len(allSegments)} \ {<<>>}

\* Position of the retained occurrence of a text in the output
PositionOf(t) == Min({i \in 1..Len(UnitsInOrder) : UnitsInOrder[i] = t})

\* C4: whatever the order in which the segment files are enumerated, the
\* transcript written is the same string.
C4_OrderIndependent ==
    Written => \A order \in Orders(videoDir) : processedText(order) = transcript

\* C5: every distinct non-empty trimmed cue text is in the written
\* transcript exactly once as a cue unit, however many cues carry it.
C5_DedupLaw ==
    Written =>
        /\ transcript = UnitsText
        /\ units.open = <<>>
        /\ \A t \in Texts : Count(t, UnitsInOrder) = 1
        /\ Range(UnitsInOrder) = Texts

\* C5 witness: a transcript was written for a video in which one text is
\* carried by two cues at different start times.
W_C5 ==
    /\ Written
    /\ \E i, k \in 1..Len(allSegments) :
        /\ i # k
        /\ Len(trim(allSegments[i].content)) > 0
        /\ trim(allSegments[i].content) = trim(allSegments[k].content)
        /\ getStartTimeMs(allSegments[i]) # getStartTimeMs(allSegments[k])
    /\ Cardinality(Texts) >= 3

\* C6 as claimed: for cues a, b with a.startMs < b.startMs and different
\* non-empty texts, a's text is not after b's text in the output.
C6_SortLaw ==
    Written =>
        \A i, k \in 1..Len(allSegments) :
            LET a == allSegments[i]
                b == allSegments[k]
            IN  (/\ getStartTimeMs(a) < getStartTimeMs(b)
                 /\ Len(trim(a.content)) > 0 /\ Len(trim(b.content)) > 0
                 /\ trim(a.content) # trim(b.content)) =>
                    PositionOf(trim(a.content)) < PositionOf(trim(b.content))

\* No cue carrying the same text is sorted before cue k.
Retained(k) ==
    \A i \in 1..(k - 1) :
        trim(allSegments[i].content) # trim(allSegments[k].content)

\* C6 amended: the same, for a cue b that is the retained (earliest-sorted)
\* cue of its text.
C6_SortLawRetained ==
    Written =>
        \A i, k \in 1..Len(allSegments) :
            LET a == allSegments[i]
                b == allSegments[k]
            IN  (/\ getStartTimeMs(a) < getStartTimeMs(b)
                 /\ Len(trim(a.content)) > 0 /\ Len(trim(b.content)) > 0
                 /\ trim(a.content) # trim(b.content)
                 /\ Retained(k)) =>
                    PositionOf(trim(a.content)) < PositionOf(trim(b.content))

\* C6 witness: glob listed a file with a later cue before a file with an
\* earlier cue, and the transcript was written.
W_C6 ==
    /\ Written
    /\ Len(segmentFiles) >= 2
    /\ LET first == parseVttFile(VttPool[segmentFiles[1]])
           second == parseVttFile(VttPool[segmentFiles[2]])
       IN  /\ Len(first) > 0 /\ Len(second) > 0
           /\ getStartTimeMs(second[1]) < getStartTimeMs(first[1])
           /\ Len(trim(first[1].content)) > 0
           /\ Len(trim(second[1].content)) > 0
           /\ trim(first[1].content) # trim(second[1].content)

\* The left side of a cue's range line, and where PATTERNS.TIMESTAMP
\* matches in it
LeftSide(segment) == split(segment.timeRange, TIME_RANGE_SEPARATOR)[1]

MatchAt(left) == {i \in 1..Len(left) : TimestampAt(left, i)}

Unparseable(segment) == MatchAt(LeftSide(segment)) = {}

\* The number written with the two digits of s at i
TwoDigits(s, i) == 10 * DigitValue(s[i]) + DigitValue(s[i + 1])

\* C23: for a cue whose left side contains HH:MM:SS.mmm getStartTimeMs is
\* ((HH*3600 + MM*60 + SS)*1000 + mmm) of the leftmost match, for any other
\* cue it is 0; the sort puts every cue without a parseable timestamp
\* before every cue with a positive start time, and so they are in the
\* written transcript (for the cues whose text is retained there).
C23_StartTime ==
    /\ (apc = "loop" /\ cursor = 0) =>
        /\ \A k \in 1..Len(allSegments) :
            \A left \in {LeftSide(allSegments[k])} :
            \A ms \in {getStartTimeMs(allSegments[k])} :
                IF MatchAt(left) = {} THEN ms = 0
                ELSE \E i \in MatchAt(left) :
                    /\ \A j \in MatchAt(left) : i <= j
                    /\ ms = (TwoDigits(left, i) * 3600
                              + TwoDigits(left, i + 3) * 60
                              + TwoDigits(left, i + 6)) * 1000
                            + 100 * DigitValue(left[i + 9])
                            + TwoDigits(left, i + 10)
        /\ \A i, k \in 1..Len(allSegments) :
            (Unparseable(allSegments[i]) /\ getStartTimeMs(allSegments[k]) > 0)
                => i < k
    /\ Written =>
        \A i, k \in 1..Len(allSegments) :
            (/\ Unparseable(allSegments[i])
             /\ getStartTimeMs(allSegments[k]) > 0
             /\ Len(trim(allSegments[i].content)) > 0
             /\ Len(trim(allSegments[k].content)) > 0
             /\ Retained(i) /\ Retained(k)) =>
                PositionOf(trim(allSegments[i].content))
                  < PositionOf(trim(allSegments[k].content))

\* C23 witness: glob listed j.txt (a cue at 01:02:03.004) before e.txt (a
\* cue "9 lives" under the range line "bad --> worse"); the transcript was
\* written with "9 lives" first.
W_C23 ==
    /\ Written
    /\ Len(segmentFiles) >= 2 /\ segmentFiles[1] = "j" /\ segmentFiles[2] = "e"
    /\ Unparseable(allSegments[1])
    /\ UnitsInOrder[1] = <<"9", " ", "l", "i", "v", "e", "s">>
    /\ \E k \in 1..Len(allSegments) : getStartTimeMs(allSegments[k]) = 3723004

\* The trimmed lines of a buffer
TrimmedLines(content) ==
    LET lines == split(trim(content), <<"\n">>)
    IN  [i \in 1..Len(lines) |-> trim(lines[i])]

\* Lines i < j of T lie in one block: no empty line between them
SameBlock(T, i, j) == \A m \in i..j : Len(T[m]) > 0

\* The lines holding the range separator that are the first such line of
\* their block (header lines do not count as lines of a block)
SeparatorLines(T) ==
    {i \in 1..Len(T) : /\ ~VTT_HEADER_BLOCKS(T[i])
                       /\ includes(T[i], TIME_RANGE_SEPARATOR)}

RangeLines(T) ==
    UNION {{i \in sep : ~\E j \in sep : j < i /\ SameBlock(T, j, i)} :
             sep \in {SeparatorLines(T)}}

\* The k-th smallest element of a set of numbers
RECURSIVE Nth(_, _)
Nth(S, k) == IF k = 1 THEN Min(S) ELSE Nth(S \ {Min(S)}, k - 1)

\* The sum of the lengths of a sequence of sequences
RECURSIVE TotalLen(_)
TotalLen(ss) == IF Len(ss) = 0 THEN 0 ELSE Len(ss[1]) + TotalLen(Tail(ss))

\* C17: parseVttFile gives a cue list for every buffer: one cue for each
\* block that holds a line with " --> ", in order, with that line as its
\* time range; blocks without such a line give no cue and leave the cues of
\* the other blocks as they are; a buffer without any such line outside
\* its header lines gives zero cues; the cues of all files reach the sort.
C17_DecoderTotal ==
    (apc \in {"loop", "returned"} /\ cursor = 0) =>
        \A all \in {[i \in 1..Len(segmentFiles) |->
                        parseVttFile(VttPool[segmentFiles[i]])]} :
            /\ \A i \in 1..Len(segmentFiles) :
                \A T \in {TrimmedLines(VttPool[segmentFiles[i]])} :
                \A R \in {RangeLines(T)} :
                    /\ Len(all[i]) = Cardinality(R)
                    /\ \A k \in 1..Len(all[i]) :
                        /\ all[i][k].timeRange = T[Nth(R, k)]
                        /\ includes(all[i][k].timeRange, TIME_RANGE_SEPARATOR)
                    /\ R = {} => all[i] = <<>>
            /\ Len(allSegments) = TotalLen(all)

\* C17 witness: e.txt (a block without range line among blocks with one)
\* and f.txt (header lines only) were decoded: two cues, both of e.txt.
W_C17 ==
    /\ apc = "loop" /\ cursor = 0
    /\ Range(segmentFiles) = {"e", "f"}
    /\ Len(allSegments) = 2
    /\ parseVttFile(File_f) = <<>>

\* The text of the cue the loop takes in this step
NextContent == trim(allSegments[cursor + 1].content)

\* The loop takes a cue in this step and retains it
Retains ==
    /\ apc = "loop" /\ cursor' = cursor + 1
    /\ seen' # seen

\* The paragraphs as cue texts, the open one last
Paragraphs(u) == IF u.open = <<>> THEN u.closed ELSE Append(u.closed, u.open)

\* C18: a retained cue that is processed while the accumulator is empty
\* (the previous retained cue closed its sentence) is the first cue of a new
\* paragraph, continuation word or not; "The cat sat." followed by
\* "And it slept." gives two paragraphs.
C18_Step ==
    /\ (Retains /\ currentSentence = <<>>) =>
        /\ Paragraphs(units') = Append(Paragraphs(units), <<NextContent>>)
        /\ \/ result' = result /\ currentSentence' = NextContent
           \/ result' = Append(result, NextContent) /\ currentSentence' = <<>>
    /\ (apc' = "returned" /\ processVideoOk' = TRUE /\ videoDir = {"a"}) =>
        result' = <<<<"T", "h", "e", " ", "c", "a", "t", " ", "s", "a", "t", ".">>,
                    <<"A", "n", "d", " ", "i", "t", " ", "s", "l", "e", "p", "t", ".">>>>

C19_Step ==
    (/\ Retains
     /\ seen # {}
     /\ \E k \in 1..26 : LowerCase[k] = NextContent[1]) =>
        LET before == Paragraphs(units)
            after == Paragraphs(units')
        IN  /\ Len(after) = Len(before)
            /\ after[Len(after)] = Append(before[Len(before)], NextContent)

C19_LowercaseJoins == [][C19_Step]_vars

\* The accumulator joined with the text of the cue after a single space
Joined == currentSentence \o <<" ">> \o NextContent

\* The cue the loop takes begins with an uppercase letter, the accumulator
\* does not end in . ! ? : ; and the cue does not begin with a continuation
\* word followed by a space
BreakRule ==
    /\ \E k \in 1..26 : UpperCase[k] = NextContent[1]
    /\ lastCharOf(trimEnd(currentSentence))
          \notin {<<".">>, <<"!">>, <<"?">>, <<":">>, <<";">>}
    /\ ~\E word \in CONTINUATION_WORDS :
          startsWith(NextContent, word \o <<" ">>)

\* C22: with a non-empty accumulator a retained cue closes the accumulator
\* and starts a new paragraph exactly when the break rule holds for it
\* (uppercase first letter, no . ! ? : ; before it, no continuation word);
\* in every other case, a digit or a punctuation mark as first character
\* included, its text is appended to the accumulator after a single space.
C22_Step ==
    (Retains /\ currentSentence # <<>>) =>
        IF BreakRule
          THEN /\ Paragraphs(units') = Append(Paragraphs(units), <<NextContent>>)
               /\ SubSeq(result', 1, Len(result) + 1)
                     = Append(result, currentSentence)
          ELSE /\ Len(Paragraphs(units')) = Len(Paragraphs(units))
               /\ \/ result' = result /\ currentSentence' = Joined
                  \/ result' = Append(result, Joined) /\ currentSentence' = <<>>

C22_BreakRule == [][C22_Step]_vars

\* C29: after each cue the accumulator is empty or does not end in . ! ?;
\* every paragraph in the output list is non-empty; every retained cue text
\* is in exactly one paragraph, once: the pushed paragraphs and the
\* accumulator are the retained texts in order, joined by single spaces.
C29_Accumulator ==
    apc \in {"loop", "returned"} =>
        /\ \/ currentSentence = <<>>
           \/ currentSentence[Len(currentSentence)] \notin {".", "!", "?"}
        /\ \A i \in 1..Len(result) : Len(result[i]) > 0
        /\ Len(units.closed) = Len(result)
        /\ \A i \in 1..Len(result) :
            /\ Len(units.closed[i]) > 0
            /\ result[i] = join(units.closed[i], <<" ">>)
        /\ apc = "loop" => currentSentence = join(units.open, <<" ">>)
        /\ Range(UnitsInOrder) = seen
        /\ \A t \in seen : Count(t, UnitsInOrder) = 1

\* C29 witness: the loop is under way with two paragraphs pushed and a
\* third one, of two cue texts, in the accumulator.
W_C29 ==
    /\ apc = "loop" /\ cursor < Len(allSegments)
    /\ Len(result) = 2 /\ Len(units.open) = 2

\* C12: when the output list of processSegments is empty (every decoded cue
\* of the video has empty text) processVideo writes no file and reports
\* failure.
C12_NoEmptyTranscript ==
    (apc = "returned" /\ result = <<>>) =>
        /\ transcript = NoFile
        /\ processVideoOk = FALSE

\* ------------------------------------------------------------------------
\* Transcript paths (services/vtt.ts sanitizeFilename, services/worker.ts
\* saveTranscript)
\* ------------------------------------------------------------------------
\* PATTERNS.FILENAME_SANITIZE: /[<>:"/\\|?*]/g
FILENAME_SANITIZE == {"<", ">", ":", "\"", "/", "\\", "|", "?", "*"}

\* the characters of \s that occur in the inputs
WhiteSpace == {" ", "\t", "\n", "\r"}

\* s.replace(/[cls]+/g, by): every maximal run of characters of cls
RECURSIVE replaceRuns(_, _, _)
replaceRuns(s, cls, by) ==
    IF Len(s) = 0 THEN <<>>
    ELSE IF s[1] \in cls THEN
        IF Len(s) > 1 /\ s[2] \in cls
          THEN replaceRuns(Tail(s), cls, by)
          ELSE by \o replaceRuns(Tail(s), cls, by)
    ELSE <<s[1]>> \o replaceRuns(Tail(s), cls, by)

\* s.replace(/[cls]/g, by): every character of cls
replaceEach(s, cls, by) ==
    [i \in 1..Len(s) |-> IF s[i] \in cls THEN by ELSE s[i]]

\* raw.replace(/[\r\n]+/g, " ").replace(FILENAME_SANITIZE, "_")
\*    .replace(/\s+/g, " ").trim()
sanitizeFilename(raw) ==
    trim(replaceRuns(
            replaceEach(replaceRuns(raw, {"\r", "\n"}, <<" ">>),
                        FILENAME_SANITIZE, "_"),
            WhiteSpace, <<" ">>))

LectureUnknown ==
    <<"L", "e", "c", "t", "u", "r", "e", " ", "u", "n", "k", "n", "o", "w", "n">>

\* item.lecture.title && item.lecture.title !== "Lecture unknown"
\*     ? item.lecture.title : `lecture_${item.lecture.id}`
rawTitle(it) ==
    IF Len(it.title) > 0 /\ it.title # LectureUnknown
      THEN it.title
      ELSE <<"l", "e", "c", "t", "u", "r", "e", "_">> \o it.id

\* path.join(config.transcriptsDir, cleanSection, `${cleanLecture}.txt`),
\* as the pair of its last two segments
outputPath(it) ==
    <<sanitizeFilename(it.section),
      sanitizeFilename(rawTitle(it)) \o <<".", "t", "x", "t">>>>

\* Section titles and lecture titles of the manifests that are tried
SectionPool ==
    { <<"S", "3">>,
      <<" ", "S", "3", "\r", "\n">> }

TitlePool ==
    { <<"I", "n", "t", "r", "o">>,
      <<"a", "/", "b">>,
      <<"a", ":", "b">>,
      LectureUnknown,
      <<>> }

\* lecture ids are unique in a manifest
LectureId(j) == <<Digits[j + 1]>>

NoTranscripts == [q \in {} |-> 0]

InitSave ==
    /\ \E m \in 1..MaxJobs :
        lectures \in [1..m ->
                        [section : SectionPool, title : TitlePool,
                         id : {LectureId(k) : k \in 1..m}]]
    /\ \A j \in DOMAIN lectures : lectures[j].id = LectureId(j)
    /\ transcripts = NoTranscripts
    /\ succeeded = {}
    /\ pending = DOMAIN lectures

IdleSave ==
    /\ lectures = <<>>
    /\ transcripts = NoTranscripts
    /\ succeeded = {}
    /\ pending = {}

\* The queue item of job j
Item(j) == lectures[j]

\* saveTranscript for job j: vtt.processVideo(videoId, outputPath) writes
\* the file and gives true, or gives false without writing.
saveTranscript(j) ==
    /\ j \in pending
    /\ pending' = pending \ {j}
    /\ \E ok \in BOOLEAN :
        IF ok THEN
            /\ transcripts' =
                 [q \in DOMAIN transcripts \cup {outputPath(Item(j))} |->
                    IF q = outputPath(Item(j)) THEN j ELSE transcripts[q]]
            /\ succeeded' = succeeded \cup {j}
        ELSE
            /\ UNCHANGED <<transcripts, succeeded>>
    /\ UNCHANGED lectures
    /\ UNCHANGED notSave

NextSave == \E j \in DOMAIN lectures : saveTranscript(j)

\* C16: at the end of a run distinct succeeded jobs have distinct transcript
\* files: the file at each succeeded job's path holds that job's transcript.
C16_OneFilePerJob ==
    pending = {} =>
        /\ \A j \in succeeded :
            /\ outputPath(Item(j)) \in DOMAIN transcripts
            /\ transcripts[outputPath(Item(j))] = j
        /\ \A i, j \in succeeded :
            i # j => outputPath(Item(i)) # outputPath(Item(j))

\* ------------------------------------------------------------------------
\* Queue build (services/manifest.ts, buildLectureQueue)
\* ------------------------------------------------------------------------
MaxBatch == 3

\* s.toLowerCase()
toLowerCase(s) ==
    [i \in 1..Len(s) |->
        IF \E k \in 1..26 : UpperCase[k] = s[i]
          THEN LowerCase[CHOOSE k \in 1..26 : UpperCase[k] = s[i]]
          ELSE s[i]]

\* The longest prefix of s made of digits
RECURSIVE digitPrefix(_)
digitPrefix(s) ==
    IF Len(s) = 0 \/ ~IsDigit(s[1]) THEN <<>>
    ELSE <<s[1]>> \o digitPrefix(Tail(s))

\* parseInt(s, 10) of any string: leading white space and a sign are
\* skipped, the digits that follow are read, NaN when there is none.
parseInt10(s) ==
    LET t == trimStart(s)
        signed == Len(t) > 0 /\ t[1] \in {"+", "-"}
        digits == digitPrefix(IF signed THEN Tail(t) ELSE t)
    IN  IF Len(digits) = 0 THEN [isNaN |-> TRUE, value |-> 0]
        ELSE [isNaN |-> FALSE,
              value |-> IF signed /\ t[1] = "-" THEN 0 - parseInt(digits)
                                                 ELSE parseInt(digits)]

\* manifest.sections[i] for a 0-based i: <<the section>>, or the empty
\* sequence for undefined
sectionAt(sections, i) ==
    IF i >= 0 /\ i < Len(sections) THEN <<sections[i + 1]>> ELSE <<>>

\* manifest.sections.find(s => s.section_title.toLowerCase().includes(target)):
\* <<the section>>, or the empty sequence for undefined
find(sections, target) ==
    LET hits == {k \in 1..Len(sections) :
                    includes(toLowerCase(sections[k].section_title), target)}
    IN  IF hits = {} THEN <<>> ELSE <<sections[Min(hits)]>>

\* section.lectures.forEach(l => queue.push({ section, lecture: l }))
pushAll(q, section) ==
    q \o [k \in 1..Len(section.lectures) |->
            [section |-> section.section_title,
             lecture |-> section.lectures[k]]]

\* manifest.sections.forEach(s => s.lectures.forEach(...))
RECURSIVE flatten(_, _)
flatten(q, sections) ==
    IF Len(sections) = 0 THEN q
    ELSE flatten(pushAll(q, sections[1]), Tail(sections))

\* queue.slice(0, end)
slice0(q, end) ==
    IF end >= 0 THEN SubSeq(q, 1, Min({end, Len(q)}))
    ELSE SubSeq(q, 1, Max({0, Len(q) + end}))

\* options.batchSize || 10, for a batchSize that is absent (NoBatch) or a
\* number
DEFAULT_BATCH == 10
NoBatch == -1
batchSizeOr(b) == IF b = NoBatch \/ b = 0 THEN DEFAULT_BATCH ELSE b

\* if (options.session): undefined and "" are falsy
Truthy(v) == v # undefined /\ Len(v) > 0

buildLectureQueue(sections, opts) ==
    IF Truthy(opts.session) THEN
        LET index == parseInt10(opts.session)
            section ==
                IF ~index.isNaN
                  THEN sectionAt(sections, index.value - 1)
                  ELSE find(sections, toLowerCase(opts.session))
        IN  IF Len(section) > 0 THEN pushAll(<<>>, section[1]) ELSE <<>>
    ELSE slice0(flatten(<<>>, sections), batchSizeOr(opts.batchSize))

\* Section titles of the manifests that are tried
Title_IAM == <<"I", "A", "M", " ", "B", "a", "s", "i", "c", "s">>
Title_iam2 == <<"i", "a", "m", " ", "A", "d", "v", "a", "n", "c", "e", "d">>
Title_S3 == <<"S", "3", " ", "S", "t", "o", "r", "a", "g", "e">>
Title_2Net == <<"2", " ", "N", "e", "t", "w", "o", "r", "k", "i", "n", "g">>

Section(title, ids) == [section_title |-> title, lectures |-> ids]

ManifestPool ==
    { <<>>,
      <<Section(Title_IAM, <<1, 2>>), Section(Title_S3, <<3>>),
        Section(Title_2Net, <<4, 5, 6>>)>>,
      <<Section(Title_S3, <<>>), Section(Title_iam2, <<1>>),
        Section(Title_IAM, <<2, 3>>)>> }

SessionPool ==
    { undefined, <<>>, <<"i", "a", "m">>, <<"I", "A", "M">>, <<"s", "3">>, <<"S", "t", "o", "r", "a", "g", "e">>, <<"z", "z", "z">>,
      <<"1">>, <<"2">>, <<"3">>,
      <<"0">>, <<"4">>,
      Title_2Net }

NotBuilt == [returned |-> FALSE, queue |-> <<>>]

InitQueue ==
    /\ manifest \in ManifestPool
    /\ options \in [session : SessionPool,
                     batchSize : {NoBatch} \cup (0..MaxBatch)]
    /\ built = NotBuilt

IdleQueue ==
    /\ manifest = <<>>
    /\ options = [session |-> undefined, batchSize |-> NoBatch]
    /\ built = NotBuilt

\* buildQueue: return buildLectureQueue(manifest, options)
BuildLectureQueue ==
    /\ ~built.returned
    /\ built' = [returned |-> TRUE,
                 queue |-> buildLectureQueue(manifest, options)]
    /\ UNCHANGED <<manifest, options>>
    /\ UNCHANGED notQueue

NextQueue == BuildLectureQueue

\* The sections a filter selects: the section at that 1-based position when
\* the filter is a number, else the first section whose title contains the
\* filter, letter case ignored.
SelectedBy(f) ==
    IF AllDigits(f)
      THEN {k \in 1..Len(manifest) : k = parseInt(f)}
      ELSE LET hits == {k \in 1..Len(manifest) :
                          includes(toLowerCase(manifest[k].section_title),
                                   toLowerCase(f))}
           IN  IF hits = {} THEN {} ELSE {Min(hits)}

\* The lectures of section k, in manifest order
LecturesOf(k) ==
    [i \in 1..Len(manifest[k].lectures) |->
        [section |-> manifest[k].section_title,
         lecture |-> manifest[k].lectures[i]]]

\* Number of lectures in the sections before section k
RECURSIVE LecturesBefore(_)
LecturesBefore(k) ==
    IF k <= 1 THEN 0
    ELSE LecturesBefore(k - 1) + Len(manifest[k - 1].lectures)

TotalLectures == LecturesBefore(Len(manifest) + 1)

\* The p-th lecture of the flattened manifest
FlatAt(p) ==
    LET k == CHOOSE k \in 1..Len(manifest) :
                 /\ LecturesBefore(k) < p
                 /\ p <= LecturesBefore(k) + Len(manifest[k].lectures)
    IN  LecturesOf(k)[p - LecturesBefore(k)]

\* C20: a filter that selects a section gives exactly the lectures of that
\* section in manifest order whatever batchSize is; a filter that selects
\* no section gives the empty queue; without filter and with batchSize
\* b >= 1 the queue is the first min(b, total) lectures of the flattened
\* manifest.
C20_QueueBuild ==
    built.returned =>
        IF Truthy(options.session) THEN
            IF SelectedBy(options.session) = {}
              THEN built.queue = <<>>
              ELSE \A k \in SelectedBy(options.session) :
                      built.queue = LecturesOf(k)
        ELSE options.batchSize >= 1 =>
            /\ Len(built.queue) = Min({options.batchSize, TotalLectures})
            /\ \A p \in 1..Len(built.queue) : built.queue[p] = FlatAt(p)

\* ------------------------------------------------------------------------
\* processLecture and its onResponse listener (services/worker.ts)
\* ------------------------------------------------------------------------
\* The responses of the lecture page: segments of the lecture's video v1,
\* a segment and a media chunk of a second video v2, and a .webvtt URL
\* without /video/<id>/hls/.
CapturePool ==
    { Response(Url("v1", "seg1", "webvtt", "eng"), 200, "bytesA"),
      Response(Url("v1", "seg2", "webvtt", Null), 200, "bytesC"),
      Response(Url("v2", "seg1", "webvtt", "eng"), 200, "bytesG"),
      Response(Url("v2", "chunk", "ts", Null), 200, "bytesH"),
      Response(Url(Null, "seg3", "webvtt", "eng"), 200, "bytesF") }

\* onResponse: const match = url.match(/\/video\/([^/]+)\/hls\//);
\*             if (match?.[1]) videoId = match[1];
setVideoId(current, url) == IF url.video # Null THEN url.video ELSE current

\* onResponse, after the await: if (url.includes(".webvtt") &&
\* response.status() === 200) counter.count++
countAfter(n, r) == IF IncludesVtt(r.url) /\ r.status = 200 THEN n + 1 ELSE n

InitCapture ==
    /\ \E n \in 1..MaxCalls : responses \in [1..n -> CapturePool]
    /\ hpc = [c \in Calls |-> "pending"]
    /\ vttDirs = {}
    /\ vttFiles = <<>>
    /\ writers = {}
    /\ doneBefore = [c \in Calls |-> {}]
    /\ cpc = "goto"
    /\ videoId = Null
    /\ count = 0
    /\ passedId = Null
    /\ listed = {}
    /\ firstId = Null
    /\ deliveredBefore = {}

IdleCapture ==
    /\ cpc = "idle"
    /\ videoId = Null
    /\ count = 0
    /\ passedId = Null
    /\ listed = {}
    /\ firstId = Null
    /\ deliveredBefore = {}

\* The listener is attached: between page.on and page.off
Listening == cpc \in {"goto", "poll", "playing", "glob"}

\* The response event of call c is delivered: onResponse sets videoId and
\* runs handleVttResponse to its `await response.text()`, or to one of its
\* early returns and then on to the counter.
OnResponse(c) ==
    /\ Listening
    /\ hpc[c] = "pending"
    /\ LET r == responses[c] IN
        /\ videoId' = setVideoId(videoId, r.url)
        /\ firstId' = IF firstId = Null THEN r.url.video ELSE firstId
        /\ IF ~Saves(r) THEN
              /\ hpc' = [hpc EXCEPT ![c] = "done"]
              /\ count' = countAfter(count, r)
              /\ UNCHANGED vttDirs
           ELSE
              /\ vttDirs' = vttDirs \cup {extractVideoIdAndFilename(r.url).videoId}
              /\ IF existsSync(vttFiles, outputFilename(r))
                   THEN /\ hpc' = [hpc EXCEPT ![c] = "done"]
                        /\ count' = countAfter(count, r)
                   ELSE /\ hpc' = [hpc EXCEPT ![c] = "text"]
                        /\ count' = count
    /\ UNCHANGED <<responses, vttFiles, writers, doneBefore>>
    /\ UNCHANGED <<cpc, passedId, listed, deliveredBefore>>
    /\ UNCHANGED notCapture

\* response.text() of call c settles, whether the listener is still
\* attached or not: the body is written (or the failure is caught), then
\* onResponse counts the segment.
ResponseText(c) ==
    /\ cpc # "idle"
    /\ hpc[c] = "text"
    /\ hpc' = [hpc EXCEPT ![c] = "done"]
    /\ \E ok \in BOOLEAN :
        IF ok THEN
            /\ vttFiles' = writeFileSync(vttFiles, outputFilename(responses[c]),
                                         responses[c].body)
            /\ writers' = writers \cup {c}
        ELSE
            UNCHANGED <<vttFiles, writers>>
    /\ count' = countAfter(count, responses[c])
    /\ UNCHANGED <<responses, vttDirs, doneBefore>>
    /\ UNCHANGED <<cpc, videoId, passedId, listed, firstId, deliveredBefore>>
    /\ UNCHANGED notCapture

\* page.goto and ensurePlaying settle: on to the poll loop, or out through
\* `return false` or the catch block (finally: page.off).
Navigate ==
    /\ cpc = "goto"
    /\ \E ok \in BOOLEAN : cpc' = IF ok THEN "poll" ELSE "returned"
    /\ UNCHANGED <<videoId, count, passedId, listed, firstId, deliveredBefore>>
    /\ UNCHANGED storeVars
    /\ UNCHANGED notCapture

\* The poll loop ends: with a video id, or after its last timer without one
\* (`return false`).
PollEnds ==
    /\ cpc = "poll"
    /\ cpc' = IF videoId # Null THEN "playing" ELSE "returned"
    /\ UNCHANGED <<videoId, count, passedId, listed, firstId, deliveredBefore>>
    /\ UNCHANGED storeVars
    /\ UNCHANGED notCapture

\* selectEnglishSubtitles and the seek or wait settle (or throw);
\* saveTranscript(videoId, ...) calls processVideo, which returns false
\* when the video has no directory and else awaits glob.
PlaybackEnds ==
    /\ cpc = "playing"
    /\ \E ok \in BOOLEAN :
        IF ok THEN
            /\ passedId' = videoId
            /\ deliveredBefore' = {c \in Calls : hpc[c] # "pending"}
            /\ cpc' = IF videoId \in vttDirs THEN "glob" ELSE "returned"
        ELSE
            /\ cpc' = "returned"
            /\ UNCHANGED <<passedId, deliveredBefore>>
    /\ UNCHANGED <<videoId, count, listed, firstId>>
    /\ UNCHANGED storeVars
    /\ UNCHANGED notCapture

\* glob settles with the files that the video's directory holds now.
GlobLists ==
    /\ cpc = "glob"
    /\ listed' = {k \in DOMAIN vttFiles : k[1] = passedId}
    /\ cpc' = "listed"
    /\ UNCHANGED <<videoId, count, passedId, firstId, deliveredBefore>>
    /\ UNCHANGED storeVars
    /\ UNCHANGED notCapture

NextCapture ==
    \/ \E c \in Calls : OnResponse(c)
    \/ \E c \in Calls : ResponseText(c)
    \/ Navigate
    \/ PollEnds
    \/ PlaybackEnds
    \/ GlobLists

\* C26: every English .webvtt 200 response of the job's video that was
\* delivered to the listener before processVideo began has its segment among
\* the files that processVideo lists.
C26_CaptureBeforeAssembly ==
    cpc = "listed" =>
        \A c \in deliveredBefore :
            (/\ Saves(responses[c])
             /\ extractVideoIdAndFilename(responses[c].url).videoId = passedId)
                => outputFilename(responses[c]) \in listed

\* C28: once videoId has been set from a response URL later responses do
\* not change it, and the id given to saveTranscript is the first id that
\* was observed.
C28_FirstIdKept ==
    /\ videoId # Null => videoId = firstId
    /\ passedId # Null => passedId = firstId

Init == InitPool /\ IdleStore /\ IdleAsm /\ IdleSave /\ IdleQueue /\ IdleCapture

NextPool ==
    \/ BuildQueue
    \/ CreateSession
    \/ RunWorkerPool
    \/ \E w \in Workers : StaggerDone(w)
    \/ \E w \in Workers : CreateContext(w)
    \/ \E w \in Workers : SetCookie(w)
    \/ \E w \in Workers : NewPage(w)
    \/ \E w \in Workers : Goto(w)
    \/ \E w \in Workers : EnsurePlaying(w)
    \/ \E w \in Workers : PollVideoId(w)
    \/ \E w \in Workers : SelectSubtitles(w)
    \/ \E w \in Workers : WaitPlayback(w)
    \/ \E w \in Workers : SaveTranscript(w)
    \/ \E w \in Workers : CloseContext(w)

Next == NextPool

Spec == Init /\ [][Next]_vars

\* The event loop runs a callback as long as a timer or a promise of the
\* run is due: every await of main and of the workers settles in the end.
SpecLive == Init /\ [][Next]_vars /\ WF_vars(Next)

IdlePool ==
    /\ concurrency = 0
    /\ queue = <<>>
    /\ seek = FALSE
    /\ cookies = <<>>
    /\ session = "none"
    /\ sharedQueue = <<>>
    /\ failed = <<>>
    /\ poolpc = "buildQueue"
    /\ summary = NoSummary
    /\ wpc = NoWorkers
    /\ lpc = NoWorkers
    /\ item = NoWorkers
    /\ context = NoWorkers
    /\ ctxCookies = NoWorkers
    /\ waitResult = NoWorkers
    /\ popCount = <<>>
    /\ doneCount = <<>>
    /\ returned = <<>>
    /\ noVideoId = {}
    /\ processed = NoWorkers

InitStoreOnly ==
    IdlePool /\ InitStore /\ IdleAsm /\ IdleSave /\ IdleQueue /\ IdleCapture

SpecStore == InitStoreOnly /\ [][NextStore]_vars

InitAsmOnly ==
    IdlePool /\ IdleStore /\ InitAsm /\ IdleSave /\ IdleQueue /\ IdleCapture

SpecAsm == InitAsmOnly /\ [][NextAsm]_vars

InitSaveOnly ==
    IdlePool /\ IdleStore /\ IdleAsm /\ InitSave /\ IdleQueue /\ IdleCapture

SpecSave == InitSaveOnly /\ [][NextSave]_vars

InitQueueOnly ==
    IdlePool /\ IdleStore /\ IdleAsm /\ IdleSave /\ InitQueue /\ IdleCapture

SpecQueue == InitQueueOnly /\ [][NextQueue]_vars

InitCaptureOnly ==
    IdlePool /\ InitCapture /\ IdleAsm /\ IdleSave /\ IdleQueue

SpecCapture == InitCaptureOnly /\ [][NextCapture]_vars

=============================================================================
